---------------------------- MODULE Spec2Model ----------------------------
(***************************************************************************)
(* A model of babel-compile's lib/compile.js (src/unnamed/part_000): the   *)
(* run() pipeline (force clean, classification, collision validation,      *)
(* stale removal, directory creation, concurrent compile and copy tasks)   *)
(* over an explicit filesystem.                                            *)
(*                                                                         *)
(* A path is the sequence of the tokens of its string: names, "." and "/". *)
(* "o/x.js" is <<"o", "/", "x", ".", "js">>, so that string concatenation  *)
(* (dst + '.map'), path.join, path.dirname, path.basename and path.parse   *)
(* are computed, and the default Array.prototype.sort order on strings is  *)
(* the lexicographic order of the tokens.                                  *)
(***************************************************************************)
EXTENDS Integers, Sequences, FiniteSets, TLC

VARIABLES
    fs,         \* the filesystem: existing path -> node
    now,        \* the clock that stamps modification times
    args,       \* the arguments of run: [dirMap, forceClean]
    linkMode,   \* which of link / symlink the platform lets succeed
    runNo,      \* number of the run() call in progress (1, 2, ...)
    pc,         \* position of run() between its awaits
    result,     \* the settlement of run()'s promise
    cleanTodo,  \* force clean: pairs whose rmrf task has not finished
    cstarted,   \* classifyDirMap: pairs whose task has started
    frames,     \* classifyDirectory calls in progress
    files,      \* classifyDirMap's res: [dir, cop, com]
    allFiles,   \* run's allFiles, sorted
    fileExtra,  \* stale files found by the incremental mode
    dirExtra,   \* stale directories found by the incremental mode
    staleTodo,  \* indices of fileExtra / dirExtra whose task has not finished
    mkTodo,     \* createDirectories: indices of files.dir not yet handled
    tasks,      \* the compile and copy tasks of run's last Promise.all
    fs0,        \* the filesystem when the current run() was called
    log         \* what the current run() did: removed paths, transform calls

vars == <<fs, now, args, linkMode, runNo, pc, result, cleanTodo, cstarted,
          frames, files, allFiles, fileExtra, dirExtra, staleTodo, mkTodo,
          tasks, fs0, log>>

-----------------------------------------------------------------------------
(* Strings and paths *)

Sep == "/"
Dot == "."

\* The rank of a token in the order of JavaScript strings: '.' (0x2E) sorts
\* before '/' (0x2F), which sorts before every letter.
TokenRank(t) ==
    CASE t = "."      -> 1
      [] t = ".."     -> 2
      [] t = "/"      -> 3
      [] t = "a"      -> 10
      [] t = "b"      -> 11
      [] t = "c"      -> 12
      [] t = "e"      -> 13
      [] t = "g"      -> 14
      [] t = "js"     -> 15
      [] t = "jsx"    -> 16
      [] t = "legacy" -> 17
      [] t = "m"      -> 18
      [] t = "map"    -> 19
      [] t = "o"      -> 20
      [] t = "p"      -> 21
      [] t = "q"      -> 22
      [] t = "s"      -> 23
      [] t = "t"      -> 24
      [] t = "txt"    -> 25
      [] t = "u"      -> 26
      [] t = "v"      -> 27
      [] t = "w"      -> 28
      [] t = "x"      -> 29
      [] t = "y"      -> 30
      [] t = "zz"     -> 31
      [] OTHER        -> 99

Min(S) == CHOOSE x \in S : \A y \in S : x <= y
Max(S) == CHOOSE x \in S : \A y \in S : x >= y

\* s < t for two strings, as the default sort comparator orders them
StrLess(s, t) ==
    LET n == IF Len(s) < Len(t) THEN Len(s) ELSE Len(t)
        d == {i \in 1..n : s[i] # t[i]}
    IN  IF d = {} THEN Len(s) < Len(t)
        ELSE TokenRank(s[Min(d)]) < TokenRank(t[Min(d)])

RECURSIVE Insert(_, _)
Insert(x, sorted) ==
    IF sorted = <<>> THEN <<x>>
    ELSE IF StrLess(x, Head(sorted)) THEN <<x>> \o sorted
    ELSE <<Head(sorted)>> \o Insert(x, Tail(sorted))

\* Array.prototype.sort() on an array of strings
RECURSIVE Sort(_)
Sort(seq) == IF seq = <<>> THEN <<>> ELSE Insert(Head(seq), Sort(Tail(seq)))

Range(seq) == {seq[i] : i \in DOMAIN seq}

\* index of the last "/" of p, 0 when there is none
LastSep(p) == LET S == {i \in DOMAIN p : p[i] = Sep} IN IF S = {} THEN 0 ELSE Max(S)

\* path.dirname
Dirname(p) == IF LastSep(p) = 0 THEN <<Dot>> ELSE SubSeq(p, 1, LastSep(p) - 1)

\* path.basename
Basename(p) == SubSeq(p, LastSep(p) + 1, Len(p))

\* path.parse(p).ext: from the last '.' of the base name, '' when the base
\* name has no '.' or only a leading one
Extname(p) ==
    LET b == Basename(p)
        D == {i \in DOMAIN b : b[i] = Dot}
    IN  IF D = {} \/ Max(D) = 1 THEN <<>> ELSE SubSeq(b, Max(D), Len(b))

\* path.join(p, name) for a directory entry name
Join(p, name) == p \o <<Sep>> \o name

\* the components of a path: "o/s/x.js" -> << <<"o">>, <<"s">>, <<"x",".","js">> >>
RECURSIVE Components(_)
Components(p) ==
    IF p = <<>> THEN <<>>
    ELSE IF LastSep(p) = 0 THEN <<p>>
    ELSE Components(SubSeq(p, 1, LastSep(p) - 1)) \o <<Basename(p)>>

RECURSIVE JoinAll(_)
JoinAll(cs) ==
    IF cs = <<>> THEN <<Dot>>
    ELSE IF Len(cs) = 1 THEN cs[1]
    ELSE Join(JoinAll(SubSeq(cs, 1, Len(cs) - 1)), cs[Len(cs)])

\* the components of a path without "." components and with "x/.." resolved
RECURSIVE Resolve(_, _)
Resolve(done, rest) ==
    IF rest = <<>> THEN done
    ELSE IF Head(rest) = <<Dot>> THEN Resolve(done, Tail(rest))
    ELSE IF Head(rest) = <<"..">> /\ done # <<>>
         THEN Resolve(SubSeq(done, 1, Len(done) - 1), Tail(rest))
    ELSE Resolve(Append(done, Head(rest)), Tail(rest))

\* path.normalize for the relative paths of the model
Normalize(p) == JoinAll(Resolve(<<>>, Components(p)))

\* path.relative that gives the second path as it is
RelativeNaive(from, to) == to

\* path.relative(from, to) for two paths relative to the working directory
Relative(from, to) ==
    LET f == Resolve(<<>>, Components(from))
        t == Resolve(<<>>, Components(to))
        n == IF Len(f) < Len(t) THEN Len(f) ELSE Len(t)
        d == {i \in 1..n : f[i] # t[i]}
        k == IF d = {} THEN n ELSE Min(d) - 1
        ups == [i \in 1..(Len(f) - k) |-> <<"..">>]
        cs == ups \o SubSeq(t, k + 1, Len(t))
    IN  IF cs = <<>> THEN <<>> ELSE JoinAll(cs)

\* p is root or lies below it
IsUnder(p, root) ==
    \/ p = root
    \/ /\ Len(p) > Len(root) + 1
       /\ SubSeq(p, 1, Len(root)) = root
       /\ p[Len(root) + 1] = Sep


-----------------------------------------------------------------------------
(* The filesystem *)

\* An inode number: the path where the inode was created and a generation,
\* so that two tasks creating files at different paths commute.  Inode
\* numbers are never 0 (the platform is POSIX).
InoAt(p, g) == [at |-> p, gen |-> g]

NoNode == [kind |-> "none", ino |-> InoAt(<<>>, 0), mtime |-> 0, mode |-> "",
           data |-> <<>>, target |-> <<>>]

FileNode(ino, t, mode, data) ==
    [kind |-> "file", ino |-> ino, mtime |-> t, mode |-> mode, data |-> data,
     target |-> <<>>]

DirNode(ino, t) ==
    [kind |-> "dir", ino |-> ino, mtime |-> t, mode |-> "755", data |-> <<>>,
     target |-> <<>>]

LinkNode(ino, t, target) ==
    [kind |-> "symlink", ino |-> ino, mtime |-> t, mode |-> "777", data |-> <<>>,
     target |-> target]

Cwd == <<Dot>>

Remove(f, S) == [q \in DOMAIN f \ S |-> f[q]]

Put(f, p, n) == [q \in DOMAIN f \cup {p} |-> IF q = p THEN n ELSE f[q]]

\* an inode number not in use, for a node created at p
NewIno(f, p) ==
    LET used == {f[q].ino.gen : q \in {r \in DOMAIN f : f[r].ino.at = p}}
    IN  InoAt(p, Min((0..Cardinality(used)) \ used))

\* adding or removing an entry of directory d stamps d
Touch(f, d, t) ==
    IF d \in DOMAIN f /\ f[d].kind = "dir"
    THEN [f EXCEPT ![d].mtime = t] ELSE f

IsDirAt(f, p) == p = Cwd \/ (p \in DOMAIN f /\ f[p].kind = "dir")

\* the path a symbolic link at p leads to (p itself when it is none)
RECURSIVE Follow(_, _, _)
Follow(f, p, fuel) ==
    IF fuel = 0 \/ p \notin DOMAIN f \/ f[p].kind # "symlink" THEN p
    ELSE Follow(f, Normalize(Join(Dirname(p), f[p].target)), fuel - 1)

MaxLinkDepth == 2

\* fs.lstat: the node at p itself, NoNode for ENOENT
Lstat(f, p) == IF p \in DOMAIN f THEN f[p] ELSE NoNode

\* fs.stat: the node p leads to through symbolic links, NoNode for ENOENT
Stat(f, p) == Lstat(f, Follow(f, p, MaxLinkDepth))

\* fs.exists that finds every path
FsExistsAlways(f, p) == TRUE

\* fs.exists
FsExists(f, p) == Stat(f, p).kind # "none"

\* fs.readdir: the entries of directory p
Entries(f, p) == {q \in DOMAIN f : q # p /\ Dirname(q) = p}

\* fs.unlink
UnlinkOk(f, p) == p \in DOMAIN f /\ f[p].kind # "dir"
Unlink(f, p, t) == Touch(Remove(f, {p}), Dirname(p), t)

\* rimraf: removes p and everything below it, no error when p is absent
Rmrf(f, p, t) ==
    IF p \notin DOMAIN f THEN f
    ELSE Touch(Remove(f, {q \in DOMAIN f : IsUnder(q, p)}), Dirname(p), t)

\* fs.link(src, dst)
LinkOk(f, src, dst) ==
    /\ src \in DOMAIN f /\ f[src].kind # "dir"
    /\ dst \notin DOMAIN f
    /\ IsDirAt(f, Dirname(dst))
Link(f, src, dst, t) == Touch(Put(f, dst, f[src]), Dirname(dst), t)

\* fs.symlink(target, dst)
SymlinkOk(f, dst) == dst \notin DOMAIN f /\ IsDirAt(f, Dirname(dst))
Symlink(f, target, dst, t) ==
    Touch(Put(f, dst, LinkNode(NewIno(f, dst), t, target)), Dirname(dst), t)

\* opening p for writing (O_WRONLY | O_CREAT | O_TRUNC), through symbolic links
WriteOk(f, p) ==
    LET r == Follow(f, p, MaxLinkDepth)
    IN  /\ IsDirAt(f, Dirname(r))
        /\ r \in DOMAIN f => f[r].kind = "file"

\* fs.writeFile(p, data, {mode}): an existing file keeps its inode and mode,
\* and every hard link of it shows the new bytes
Write(f, p, data, mode, t) ==
    LET r == Follow(f, p, MaxLinkDepth)
    IN  IF r \in DOMAIN f
        THEN [q \in DOMAIN f |->
                 IF f[q].kind = "file" /\ f[q].ino = f[r].ino
                 THEN [f[q] EXCEPT !.data = data, !.mtime = t]
                 ELSE f[q]]
        ELSE Touch(Put(f, r, FileNode(NewIno(f, r), t, mode, data)), Dirname(r), t)

\* p and the directories above it, the working directory excluded
Prefixes(p) == {SubSeq(p, 1, i - 1) : i \in {j \in DOMAIN p : p[j] = Sep}} \cup {p}

\* mkdirp that never fails
MkdirpOkAlways(f, p) == TRUE

\* mkdirp fails when p or a segment above it exists and is no directory
MkdirpOk(f, p) == \A q \in Prefixes(p) : q \in DOMAIN f => Stat(f, q).kind = "dir"

\* mkdirp that makes p alone, not the segments above it
MkdirpLeafOnly(f, p, t) ==
    IF p \in DOMAIN f THEN f ELSE Put(f, p, DirNode(NewIno(f, p), t))

\* mkdirp: creates p and every missing segment above it
Mkdirp(f, p, t) ==
    LET new == Prefixes(p) \ DOMAIN f
        g == [q \in DOMAIN f \cup new |->
                 IF q \in new THEN DirNode(NewIno(f, q), t)
                 ELSE IF \E n \in new : Dirname(n) = q THEN [f[q] EXCEPT !.mtime = t]
                 ELSE f[q]]
    IN  g

\* the bytes read through p (a symbolic link gives the bytes of its target)
Bytes(f, p) == Stat(f, p).data

-----------------------------------------------------------------------------
(* Program constants and the external transform capability *)

\* const supportedFiles = ['.js', '.jsx']
supportedFiles == {<<Dot, "js">>, <<Dot, "jsx">>}

\* const sourceMapSuffix = '.map'
sourceMapSuffix == <<Dot, "map">>

\* isJs knowing '.js' alone
isJsWithoutJsx(filename) == Extname(filename) = <<Dot, "js">>

isJs(filename) == Extname(filename) \in supportedFiles

\* a babel options object without keys
NoOpts == [k \in {} |-> <<>>]

\* _.defaults with the sources the other way round: a later source wins
DefaultsLastWins(object, source) ==
    [k \in DOMAIN object \cup DOMAIN source |->
        IF k \in DOMAIN source THEN source[k] ELSE object[k]]

\* one source of _.defaults(object, source): a key object has keeps its
\* value, a key it lacks gets the value of source
Defaults(object, source) ==
    [k \in DOMAIN object \cup DOMAIN source |->
        IF k \in DOMAIN object THEN object[k] ELSE source[k]]

\* the object literal of lines 495-500
CompileOpts(src, dst) ==
    [sourceMaps |-> <<"true">>,
     sourceFileName |-> Basename(src),
     sourceMapTarget |-> Basename(dst),
     sourceRoot |-> Relative(Dirname(dst), Dirname(src))]

\* _opts of line 495: _.defaults({}, {...}, opts)
TransformOpts(src, dst, opts) == Defaults(Defaults(NoOpts, CompileOpts(src, dst)), opts)

\* JSON.stringify(map, null, 2)
JsonPretty(map) == <<"{\n  ">> \o map \o <<"\n}">>

\* the bytes of a source file babel cannot parse
BadBytes == <<"not javascript">>

\* a transform that never fails
TransformOkAlways(bytes) == TRUE

\* babel.transformFile calls back without an error
TransformOk(bytes) == bytes # BadBytes

\* babel.transformFile: out.code and out.map for the bytes of a source file
TransformCode(bytes) == <<"code(">> \o bytes \o <<")">>
TransformMap(bytes) == <<"map(">> \o bytes \o <<")">>

\* CodeFile without the trailing comment
CodeFileWithoutComment(bytes, dst) == TransformCode(bytes)

\* what compile writes to dst and to dst + '.map'
CodeFile(bytes, dst) ==
    TransformCode(bytes) \o <<"\n//# sourceMappingURL=">> \o Basename(dst) \o sourceMapSuffix
MapFile(bytes) == JsonPretty(TransformMap(bytes)) \o <<"\n">>

-----------------------------------------------------------------------------
(* Bounds and the filesystems and pairing lists run() is called with *)

SrcTime == 2        \* the modification time of the source files
TimeSpan == 1       \* the clock reads SrcTime .. SrcTime + TimeSpan
MaxRuns == 2        \* run() is called at most this many times in succession

Times == SrcTime .. (SrcTime + TimeSpan)

Name(stem, ext) == <<stem, Dot, ext>>

A == <<"a">>
Ax == Join(A, Name("x", "js"))
As == Join(A, <<"s">>)
Asu == Join(As, Name("u", "txt"))
B == <<"b">>
Bt == Join(B, Name("t", "txt"))
By == Join(B, Name("y", "js"))
M == <<"m">>
Mx == Join(M, Name("x", "js"))
Mxmap == Mx \o sourceMapSuffix
O == <<"o">>
Ox == Join(O, Name("x", "js"))
Oy == Join(O, Name("y", "js"))
Os == Join(O, <<"s">>)
Osu == Join(Os, Name("u", "txt"))
Og == Join(O, <<"g">>)
Ogt == Join(Og, Name("t", "txt"))
Olegacy == Join(O, <<"legacy", Dot, "js", Dot, "map">>)
Opq == Join(Join(O, <<"p">>), <<"q">>)
Pp == <<"p">>
Zz == <<"zz">>
E == <<"e">>
Ey == Join(E, Name("y", "js"))
Ag == Join(A, <<"g">>)
C == <<"c">>
Cv == Join(C, Name("v", "js"))
Cw == Join(C, Name("w", "jsx"))
Ce == Join(C, <<"e">>)

SrcBytes(p) == <<"bytes of">> \o p
SrcFile(p, mode) == FileNode(InoAt(p, 0), SrcTime, mode, SrcBytes(p))
Dir(p) == DirNode(InoAt(p, 0), SrcTime)

\* a source tree with a file to compile, a directory and a file to copy
TreeA ==
    (A :> Dir(A)) @@ (Ax :> SrcFile(Ax, "644")) @@ (As :> Dir(As))
    @@ (Asu :> SrcFile(Asu, "755"))

\* a source tree with a file to copy and a file to compile
TreeB == (B :> Dir(B)) @@ (Bt :> SrcFile(Bt, "644")) @@ (By :> SrcFile(By, "644"))

\* test/source-map-overshadow: x.js beside a stray x.js.map
TreeM ==
    (M :> Dir(M)) @@ (Mx :> SrcFile(Mx, "644")) @@ (Mxmap :> SrcFile(Mxmap, "644"))

\* an empty destination directory
TreeO == (O :> Dir(O))

\* a destination left by an earlier run over TreeA at time t, with the
\* leftovers of sources that are gone: o/legacy.js.map and o/g/t.txt
TreeOPrev(t) ==
    (O :> Dir(O))
    @@ (Ox :> FileNode(InoAt(Ox, 0), t, "644", CodeFile(SrcBytes(Ax), Ox)))
    @@ (Ox \o sourceMapSuffix :>
            FileNode(InoAt(Ox \o sourceMapSuffix, 0), t, "644", MapFile(SrcBytes(Ax))))
    @@ (Os :> Dir(Os)) @@ (Osu :> SrcFile(Asu, "755"))
    @@ (Olegacy :> FileNode(InoAt(Olegacy, 0), t, "644", <<"old map">>))
    @@ (Og :> Dir(Og)) @@ (Ogt :> SrcFile(Bt, "644"))

\* a destination whose x.js, older than the source, and x.js.map were made
\* with permission bits of their own
TreeOMode(mode) ==
    (O :> Dir(O))
    @@ (Ox :> FileNode(InoAt(Ox, 0), SrcTime - 1, mode, CodeFile(SrcBytes(Ax), Ox)))
    @@ (Ox \o sourceMapSuffix :>
            FileNode(InoAt(Ox \o sourceMapSuffix, 0), SrcTime - 1, mode,
                     MapFile(SrcBytes(Ax))))

\* a destination whose x.js is a hard link of a/x.js
TreeOLinked == (O :> Dir(O)) @@ (Ox :> SrcFile(Ax, "644"))

\* a source tree whose only file babel cannot parse, and a destination with
\* what an earlier run made of an older version of that file
TreeE == (E :> Dir(E)) @@ (Ey :> FileNode(InoAt(Ey, 0), SrcTime, "644", BadBytes))
TreeOOfE ==
    (O :> Dir(O))
    @@ (Oy :> FileNode(InoAt(Oy, 0), SrcTime - 1, "644", CodeFile(SrcBytes(Ey), Oy)))
    @@ (Oy \o sourceMapSuffix :>
            FileNode(InoAt(Oy \o sourceMapSuffix, 0), SrcTime - 1, "644",
                     MapFile(SrcBytes(Ey))))

\* a destination where o/s is what copy('b/t.txt', 'o/s') has made: a hard
\* link of b/t.txt
TreeOFile == (O :> Dir(O)) @@ (Os :> SrcFile(Bt, "644"))

\* a destination whose x.js is a symbolic link made at time t
TreeOSymlink(t) == (O :> Dir(O)) @@ (Ox :> LinkNode(InoAt(Ox, 0), t, <<"elsewhere">>))

\* a destination with one leftover of a source that is gone
TreeOLegacy ==
    (O :> Dir(O)) @@ (Olegacy :> FileNode(InoAt(Olegacy, 0), SrcTime, "644", <<"old map">>))

\* TreeA with a symbolic link a/g that leads to the directory a/s
TreeALinked == TreeA @@ (Ag :> LinkNode(InoAt(Ag, 0), SrcTime, <<"s">>))

\* a source tree with two files to compile and an empty directory
TreeC ==
    (C :> Dir(C)) @@ (Cv :> SrcFile(Cv, "644")) @@ (Cw :> SrcFile(Cw, "644"))
    @@ (Ce :> Dir(Ce))

\* what may lie at o/s/u.txt that no run over TreeA has put there: a symbolic
\* link that leads elsewhere, a regular file of its own older than, as old as
\* or newer than the source
StrayNodes ==
    {LinkNode(InoAt(Osu, 0), SrcTime, <<"elsewhere">>)}
    \cup {FileNode(InoAt(Osu, 0), t, "644", <<"other bytes">>) :
            t \in {SrcTime - 1, SrcTime, SrcTime + 1}}

\* a destination with such an entry at o/s/u.txt
TreeOStray(n) == (O :> Dir(O)) @@ (Os :> Dir(Os)) @@ (Osu :> n)

Pair(s, d) == [src |-> s, dst |-> d]

AllModes == {"absent", "true", "false"}
SomeModes == {"absent", "false"}
AllLinks == {"hard", "sym", "copy"}

\* the babel options a caller may pass: none, or some that name the keys
\* compile sets itself beside keys of their own
CallerOpts ==
    {NoOpts,
     [sourceMaps |-> <<"false">>, sourceRoot |-> <<"elsewhere">>,
      presets |-> <<"es2015">>],
     [sourceFileName |-> <<"elsewhere">>, sourceMapTarget |-> <<"elsewhere">>,
      comments |-> <<"false">>]}

World(dirMap, tree, fcs, links) ==
    [dirMap |-> dirMap, fs |-> tree, fcs |-> fcs, links |-> links, opts |-> {NoOpts}]

WithOpts(w, opts) == [w EXCEPT !.opts = opts]

Worlds ==
    {WithOpts(World(<<Pair(A, O)>>, TreeA, AllModes, AllLinks), CallerOpts)}
    \cup {World(<<Pair(A, O)>>, TreeA @@ TreeOPrev(t), SomeModes, {"hard", "sym"}) :
            t \in {SrcTime - 1, SrcTime, SrcTime + 1}}
    \cup {World(<<Pair(M, O)>>, TreeM @@ TreeOPrev(SrcTime), SomeModes, {"hard"}),
          World(<<Pair(A, O), Pair(M, O)>>, TreeA @@ TreeM, SomeModes, {"hard"}),
          World(<<Pair(A, A)>>, TreeA, SomeModes, {"hard"}),
          World(<<Pair(B, O), Pair(Os, Pp)>>, TreeB @@ TreeOPrev(SrcTime),
                SomeModes, {"hard"}),
          World(<<Pair(A, O), Pair(Os, Pp)>>, TreeA @@ TreeOPrev(SrcTime),
                SomeModes, {"hard"}),
          World(<<Pair(A, Pp), Pair(Zz, O)>>, TreeA @@ TreeOPrev(SrcTime),
                SomeModes, {"hard"}),
          World(<<Pair(Ax, Oy)>>, TreeA @@ TreeO, SomeModes, {"hard"}),
          World(<<Pair(A, O), Pair(Bt, Ogt)>>, TreeA @@ TreeB @@ TreeOPrev(SrcTime),
                SomeModes, {"hard"}),
          World(<<Pair(A, O), Pair(B, Opq)>>, TreeA @@ TreeB, SomeModes, {"hard"}),
          World(<<Pair(A, O), Pair(Bt, Os)>>, TreeA @@ TreeB, SomeModes, {"hard"}),
          World(<<Pair(C, O)>>, TreeC, AllModes, {"hard"}),
          World(<<Pair(A, O)>>, TreeA @@ TreeOMode("600"), {"false"}, {"hard"}),
          World(<<Pair(A, O)>>, TreeA @@ TreeOLinked, {"false"}, {"hard"}),
          World(<<Pair(E, O)>>, TreeE @@ TreeOOfE, SomeModes, {"hard"}),
          World(<<Pair(A, O), Pair(B, O)>>, TreeA @@ TreeB, SomeModes, {"hard"}),
          World(<<Pair(A, O), Pair(Bt, Os)>>, TreeA @@ TreeB @@ TreeOFile,
                {"false"}, {"hard"}),
          World(<<Pair(A, O), Pair(B, O)>>, TreeA @@ TreeB @@ TreeOLegacy,
                {"false"}, {"hard"}),
          World(<<Pair(A, O)>>, TreeALinked, {"absent"}, {"hard"})}
    \cup {World(<<Pair(A, O)>>, TreeA @@ TreeOStray(n), {"false"}, AllLinks) :
            n \in StrayNodes}
    \cup {World(<<Pair(A, O)>>, TreeA @@ TreeOSymlink(t), {"false"}, {"hard"}) :
            t \in {SrcTime, SrcTime + 1}}

-----------------------------------------------------------------------------
(* run(dirMap, babelopts, bcopts) *)

NoFiles == [dir |-> <<>>, cop |-> <<>>, com |-> <<>>]
NoFrames == [id \in {} |-> NoFiles]
NoLog == [removed |-> {}, created |-> {}, transforms |-> {}, manual |-> {}]
Pending == [state |-> "pending", code |-> "", paths |-> <<>>]
Rejected(code, paths) == [state |-> "rejected", code |-> code, paths |-> paths]
Resolved == [state |-> "resolved", code |-> "", paths |-> <<>>]


\* forceClean defaulting to false
forceCleanDefaultFalse == args.forceClean = "true"

\* _.defaults({}, bcopts, {forceClean: true}).forceClean
forceClean == IF args.forceClean = "absent" THEN TRUE ELSE args.forceClean = "true"

dirMap == args.dirMap

\* the state in which run() has been called and has not yet awaited:
\* lines 40-55
Init ==
    \E w \in Worlds : \E fc \in w.fcs, lm \in w.links, t \in Times, bo \in w.opts :
        /\ fs = w.fs
        /\ now = t
        /\ args = [dirMap |-> w.dirMap, babelopts |-> bo, forceClean |-> fc]
        /\ linkMode = lm
        /\ runNo = 1
        /\ pc = IF forceClean THEN "clean" ELSE "classify"
        /\ result = Pending
        /\ cleanTodo = IF forceClean THEN DOMAIN dirMap ELSE {}
        /\ cstarted = {}
        /\ frames = NoFrames
        /\ files = NoFiles
        /\ allFiles = <<>>
        /\ fileExtra = <<>>
        /\ dirExtra = <<>>
        /\ staleTodo = {}
        /\ mkTodo = {}
        /\ tasks = <<>>
        /\ fs0 = w.fs
        /\ log = NoLog

(* Force clean: lines 53-60 *)

\* one task of the Promise.all: if (await fs.exists(pair.dst)) await rmrf(pair.dst)
CleanPair(i) ==
    /\ pc = "clean"
    /\ i \in cleanTodo
    /\ LET dst == dirMap[i].dst
           gone == {q \in DOMAIN fs : IsUnder(q, dst)}
       IN  IF FsExists(fs, dst)
           THEN /\ fs' = Rmrf(fs, dst, now)
                /\ log' = [log EXCEPT !.removed = @ \cup {<<"clean", q>> : q \in gone}]
           ELSE UNCHANGED <<fs, log>>
    /\ cleanTodo' = cleanTodo \ {i}
    /\ UNCHANGED <<now, args, linkMode, runNo, pc, result, cstarted, frames, files,
                   allFiles, fileExtra, dirExtra, staleTodo, mkTodo, tasks, fs0>>

\* the await of the Promise.all returns: classifyDirMap is called
CleanDone ==
    /\ pc = "clean"
    /\ cleanTodo = {}
    /\ pc' = "classify"
    /\ UNCHANGED <<fs, now, args, linkMode, runNo, result, cleanTodo, cstarted, frames,
                   files, allFiles, fileExtra, dirExtra, staleTodo, mkTodo, tasks, fs0, log>>

(* Classification: classifyDirMap, lines 181-200, classifyDirectory, 211-255 *)

Top == <<0, <<>>>>

\* Merge that leaves the directories of the sub-result out
MergeWithoutDirs(res, r) ==
    [dir |-> res.dir, cop |-> res.cop \o r.cop, com |-> res.com \o r.com]

\* Array.prototype.push.apply for the three lists of a result
Merge(res, r) ==
    [dir |-> res.dir \o r.dir, cop |-> res.cop \o r.cop, com |-> res.com \o r.com]

\* PushFile that takes every file for one to copy
PushFileAlwaysCopy(res, src, dst) == [res EXCEPT !.cop = Append(@, Pair(src, dst))]

\* the item of a file: into com when isJs, into cop otherwise
PushFile(res, src, dst) ==
    IF isJs(src)
    THEN [res EXCEPT !.com = Append(@, Pair(src, dst))]
    ELSE [res EXCEPT !.cop = Append(@, Pair(src, dst))]

\* the calls of classifyDirectory for the directories at and below src, each
\* with res.dir = [dst], its entries that are no directories still to be
\* pushed and its sub-directories still to return
NewFrames(f, i, src, dst) ==
    LET D == {d \in DOMAIN f : f[d].kind = "dir" /\ IsUnder(d, src)}
    IN  [id \in {<<i, d>> : d \in D} |->
            LET d == id[2]
                to == dst \o SubSeq(d, Len(src) + 1, Len(d))
            IN  [dst |-> to,
                 parent |-> IF d = src THEN Top ELSE <<i, Dirname(d)>>,
                 res |-> [dir |-> <<to>>, cop |-> <<>>, com |-> <<>>],
                 pend |-> {q \in Entries(f, d) : f[q].kind # "dir"},
                 kids |-> {<<i, q>> : q \in {e \in Entries(f, d) : f[e].kind = "dir"}}]]

\* the task of one pair: the existence assertion, then classifyDirectory up
\* to its readdir; a source that is no directory is classified at once
ClassifyPair(i) ==
    /\ pc = "classify" /\ result.state = "pending"
    /\ i \in DOMAIN dirMap \ cstarted
    /\ cstarted' = cstarted \cup {i}
    /\ LET src == dirMap[i].src
           dst == dirMap[i].dst
       IN  IF ~FsExists(fs, src)
           THEN /\ result' = Rejected("AssertionError", <<src>>)
                /\ UNCHANGED <<frames, files>>
           ELSE IF Lstat(fs, src).kind # "dir"
           THEN /\ files' = PushFile(files, src, dst)
                /\ UNCHANGED <<frames, result>>
           ELSE /\ frames' = frames @@ NewFrames(fs, i, src, dst)
                /\ UNCHANGED <<files, result>>
    /\ UNCHANGED <<fs, now, args, linkMode, runNo, pc, cleanTodo, allFiles, fileExtra,
                   dirExtra, staleTodo, mkTodo, tasks, fs0, log>>

\* the task of a directory entry that is no directory: lines 247-251
ClassifyEntry(id, q) ==
    /\ pc = "classify" /\ result.state = "pending"
    /\ id \in DOMAIN frames
    /\ q \in frames[id].pend
    /\ frames' = [frames EXCEPT
                    ![id].pend = @ \ {q},
                    ![id].res = PushFile(@, q, Join(frames[id].dst, Basename(q)))]
    /\ UNCHANGED <<fs, now, args, linkMode, runNo, pc, result, cleanTodo, cstarted,
                   files, allFiles, fileExtra, dirExtra, staleTodo, mkTodo, tasks, fs0, log>>

\* a classifyDirectory call returns once all its entry tasks are done; its
\* caller pushes the result onto its own: lines 243-246 and 193-196
ClassifyReturn(id) ==
    /\ pc = "classify" /\ result.state = "pending"
    /\ id \in DOMAIN frames
    /\ frames[id].pend = {} /\ frames[id].kids = {}
    /\ LET fr == frames[id]
           rest == Remove(frames, {id})
       IN  IF fr.parent = Top
           THEN /\ files' = Merge(files, fr.res)
                /\ frames' = rest
           ELSE /\ frames' = [rest EXCEPT
                                ![fr.parent].kids = @ \ {id},
                                ![fr.parent].res = Merge(@, fr.res)]
                /\ UNCHANGED files
    /\ UNCHANGED <<fs, now, args, linkMode, runNo, pc, result, cleanTodo, cstarted,
                   allFiles, fileExtra, dirExtra, staleTodo, mkTodo, tasks, fs0,
                   log>>


\* ClassifyFinished without waiting for the classifyDirectory calls
ClassifyStartedOnly == cstarted = DOMAIN dirMap

ClassifyFinished == cstarted = DOMAIN dirMap /\ DOMAIN frames = {}

(* Collision validation: lines 65-102 *)

Map(seq, Op(_)) == [i \in DOMAIN seq |-> Op(seq[i])]

\* _.uniq: the first occurrence of every value
RECURSIVE Uniq(_)
Uniq(seq) ==
    IF seq = <<>> THEN <<>>
    ELSE LET front == Uniq(SubSeq(seq, 1, Len(seq) - 1))
             x == seq[Len(seq)]
         IN  IF x \in Range(front) THEN front ELSE Append(front, x)

\* _.intersection(a, b): the unique values of a that are in b
Intersection(a, b) == Uniq(SelectSeq(a, LAMBDA x : x \in Range(b)))


\* _.difference with its arguments swapped
DifferenceSwapped(a, b) == SelectSeq(b, LAMBDA x : x \notin Range(a))

\* _.difference(a, b): the values of a that are not in b
Difference(a, b) == SelectSeq(a, LAMBDA x : x \notin Range(b))


\* AllFilesOf without the source map paths
AllFilesWithoutMaps(res) ==
    Sort(Map(res.com, LAMBDA x : x.dst) \o Map(res.cop, LAMBDA x : x.dst))

\* lines 65-70
AllFilesOf(res) ==
    Sort(Map(res.com, LAMBDA x : x.dst) \o Map(res.cop, LAMBDA x : x.dst)
         \o Map(res.com, LAMBDA x : x.dst \o sourceMapSuffix))

\* lines 72-76
AllSourceFilesOf(res) ==
    Sort(Map(res.com, LAMBDA x : x.src) \o Map(res.cop, LAMBDA x : x.src))


\* Overlapping against the transform sources alone
OverlappingTransformsOnly(res) ==
    Intersection(AllFilesOf(res), Sort(Map(res.com, LAMBDA x : x.src)))

\* line 78
Overlapping(res) == Intersection(AllFilesOf(res), AllSourceFilesOf(res))

\* line 88
HasDupes(all) == Len(all) # Len(Uniq(all))

\* lines 90-96: the values of the sorted list equal to their predecessor
Dupes(all) ==
    LET a == Sort(all)
        at == SelectSeq([i \in 1 .. (Len(a) - 1) |-> i + 1], LAMBDA i : a[i] = a[i - 1])
    IN  [k \in DOMAIN at |-> a[at[k]]]

(* listDirectory: lines 138-167 *)

RECURSIVE SortSet(_)
SortSet(S) ==
    IF S = {} THEN <<>>
    ELSE LET m == CHOOSE x \in S : \A y \in S \ {x} : StrLess(x, y)
         IN  <<m>> \o SortSet(S \ {m})

\* the inner function x(y): y, then its entries in readdir's (sorted) order
RECURSIVE Walk(_, _)
RECURSIVE WalkAll(_, _)
Walk(f, y) ==
    IF f[y].kind = "dir"
    THEN LET below == WalkAll(f, SortSet(Entries(f, y)))
         IN  [files |-> below.files, dirs |-> <<y>> \o below.dirs]
    ELSE [files |-> <<y>>, dirs |-> <<>>]
WalkAll(f, ys) ==
    IF ys = <<>> THEN [files |-> <<>>, dirs |-> <<>>]
    ELSE LET h == Walk(f, Head(ys))
             t == WalkAll(f, Tail(ys))
         IN  [files |-> h.files \o t.files, dirs |-> h.dirs \o t.dirs]

\* the roots that lstat finds, walked one after the other
listDirectory(f, roots) == WalkAll(f, SelectSeq(roots, LAMBDA r : r \in DOMAIN f))

\* classification is over: the validation of lines 65-102 and, when it
\* passes, listDirectory and the differences of lines 108-110 (incremental
\* mode) or the call of createDirectories of line 119 (force clean)
Validate ==
    /\ pc = "classify" /\ result.state = "pending"
    /\ ClassifyFinished
    /\ LET all == AllFilesOf(files)
           over == Overlapping(files)
           found == listDirectory(fs, Map(dirMap, LAMBDA x : x.dst))
       IN  /\ allFiles' = all
           /\ IF Len(over) > 0
              THEN /\ result' = Rejected("InputOutputOverlap", over)
                   /\ pc' = "validate"
                   /\ UNCHANGED <<fileExtra, dirExtra, staleTodo, mkTodo>>
              ELSE IF HasDupes(all)
              THEN /\ result' = Rejected("FoundDuplicates", Dupes(all))
                   /\ pc' = "validate"
                   /\ UNCHANGED <<fileExtra, dirExtra, staleTodo, mkTodo>>
              ELSE IF ~forceClean
              THEN /\ dirExtra' = Difference(found.dirs, files.dir)
                   /\ fileExtra' = Difference(found.files, all)
                   /\ staleTodo' = {<<"file", k>> : k \in DOMAIN fileExtra'}
                   /\ pc' = "unlink"
                   /\ UNCHANGED <<result, mkTodo>>
              ELSE /\ mkTodo' = DOMAIN files.dir
                   /\ pc' = "mkdirs"
                   /\ UNCHANGED <<result, fileExtra, dirExtra, staleTodo>>
    /\ UNCHANGED <<fs, now, args, linkMode, runNo, cleanTodo, cstarted, frames, files,
                   tasks, fs0, log>>

(* Stale removal in incremental mode: lines 106-114 *)

Fail(code, p) == IF result.state = "pending" THEN Rejected(code, <<p>>) ELSE result

\* one task of line 112: fs.unlink(x) for x in fileExtra
UnlinkStale(k) ==
    /\ <<"file", k>> \in staleTodo
    /\ staleTodo' = staleTodo \ {<<"file", k>>}
    /\ LET p == fileExtra[k]
       IN  IF UnlinkOk(fs, p)
           THEN /\ fs' = Unlink(fs, p, now)
                /\ log' = [log EXCEPT !.removed = @ \cup {<<"stale", p>>}]
                /\ UNCHANGED result
           ELSE /\ result' = Fail("ENOENT", p)
                /\ UNCHANGED <<fs, log>>
    /\ UNCHANGED <<now, args, linkMode, runNo, pc, cleanTodo, cstarted, frames, files,
                   allFiles, fileExtra, dirExtra, mkTodo, tasks, fs0>>

\* the await of line 112 returns: line 113 starts the rmrf tasks
UnlinkDone ==
    /\ pc = "unlink" /\ result.state = "pending"
    /\ staleTodo = {}
    /\ pc' = "rmdirs"
    /\ staleTodo' = {<<"dir", k>> : k \in DOMAIN dirExtra}
    /\ UNCHANGED <<fs, now, args, linkMode, runNo, result, cleanTodo, cstarted, frames,
                   files, allFiles, fileExtra, dirExtra, mkTodo, tasks, fs0, log>>

\* one task of line 113: rmrf(x) for x in dirExtra
RmrfStale(k) ==
    /\ <<"dir", k>> \in staleTodo
    /\ staleTodo' = staleTodo \ {<<"dir", k>>}
    /\ LET p == dirExtra[k]
           gone == {q \in DOMAIN fs : IsUnder(q, p)}
       IN  /\ fs' = Rmrf(fs, p, now)
           /\ log' = [log EXCEPT !.removed = @ \cup {<<"stale", q>> : q \in gone}]
    /\ UNCHANGED <<now, args, linkMode, runNo, pc, result, cleanTodo, cstarted, frames,
                   files, allFiles, fileExtra, dirExtra, mkTodo, tasks, fs0>>

\* the await of line 113 returns: createDirectories(files.dir) is called
RmrfDone ==
    /\ pc = "rmdirs" /\ result.state = "pending"
    /\ staleTodo = {}
    /\ pc' = "mkdirs"
    /\ mkTodo' = DOMAIN files.dir
    /\ UNCHANGED <<fs, now, args, linkMode, runNo, result, cleanTodo, cstarted, frames,
                   files, allFiles, fileExtra, dirExtra, staleTodo, tasks, fs0, log>>

(* createDirectories: lines 264-287 *)

\* one task: nothing to do when lstat finds a directory, mkdirp otherwise
CreateDirectory(k) ==
    /\ k \in mkTodo
    /\ mkTodo' = mkTodo \ {k}
    /\ LET dir == files.dir[k]
       IN  IF Lstat(fs, dir).kind = "dir"
           THEN UNCHANGED <<fs, log, result>>
           ELSE IF MkdirpOk(fs, dir)
           THEN /\ fs' = Mkdirp(fs, dir, now)
                /\ log' = [log EXCEPT !.created =
                                @ \cup {<<"mkdir", q>> : q \in Prefixes(dir) \ DOMAIN fs}]
                /\ UNCHANGED result
           ELSE /\ result' = Fail("EEXIST", dir)
                /\ UNCHANGED <<fs, log>>
    /\ UNCHANGED <<now, args, linkMode, runNo, pc, cleanTodo, cstarted, frames, files,
                   allFiles, fileExtra, dirExtra, staleTodo, tasks, fs0>>

\* a compile or copy call up to its first await
NewTask(kind, item) ==
    [kind |-> kind, src |-> item.src, dst |-> item.dst, pc |-> "stat",
     srcstat |-> NoNode, dstlstat |-> NoNode, out |-> <<>>, writes |-> {},
     tried |-> <<>>, err |-> "", opts |-> NoOpts, calls |-> 0]

\* the await of line 119 returns: lines 123-126 start every compile and copy
CreateDirectoriesDone ==
    /\ pc = "mkdirs" /\ result.state = "pending"
    /\ mkTodo = {}
    /\ pc' = "files"
    /\ tasks' = [i \in 1 .. (Len(files.com) + Len(files.cop)) |->
                    IF i <= Len(files.com)
                    THEN NewTask("compile", files.com[i])
                    ELSE NewTask("copy", files.cop[i - Len(files.com)])]
    /\ UNCHANGED <<fs, now, args, linkMode, runNo, result, cleanTodo, cstarted, frames,
                   files, allFiles, fileExtra, dirExtra, staleTodo, mkTodo, fs0, log>>

(* copy: lines 306-421, and compile: lines 447-517 *)

\* what a task step leaves alone
TaskFrame ==
    UNCHANGED <<now, args, linkMode, runNo, pc, cleanTodo, cstarted, frames, files,
                allFiles, fileExtra, dirExtra, staleTodo, mkTodo, fs0>>


\* AfterIno with the comparison the wrong way round
AfterInoInverted(kind, st, dl) == IF dl.mtime > st.mtime THEN "unlinkC" ELSE "done"

\* AfterIno that leaves a destination as old as the source alone
AfterInoNewerOrEqual(kind, st, dl) ==
    IF dl.mtime >= st.mtime THEN "done" ELSE "unlinkC"

\* AfterIno that never redoes a destination
AfterInoNeverRedo(kind, st, dl) == "done"

\* lines 366-370 and 486-490: a destination strictly newer than the source
\* is left as it is, any other is unlinked
AfterIno(kind, st, dl) == IF dl.mtime > st.mtime THEN "done" ELSE "unlinkC"

\* AfterNotFile without the comparison of the inodes
AfterNotFileWithoutInode(kind, st, dl) == AfterIno(kind, st, dl)

\* lines 357-359: copy returns on a hard link of the source;
\* lines 477-479: compile unlinks it
AfterNotFile(kind, st, dl) ==
    IF st.ino = dl.ino /\ st.ino # NoNode.ino
    THEN (IF kind = "copy" THEN "done" ELSE "unlinkB")
    ELSE AfterIno(kind, st, dl)

\* where the task goes once lstat(dst) has returned dl: lines 328-353, 464-471
AfterLstat(kind, st, dl) ==
    IF dl.kind = "none" THEN (IF kind = "copy" THEN "link" ELSE "transform")
    ELSE IF dl.kind = "dir" THEN "rmrf"
    ELSE IF dl.kind = "symlink" THEN (IF kind = "copy" THEN "readlink" ELSE "unlinkA")
    ELSE AfterNotFile(kind, st, dl)

\* where the task goes once rmrf(dst) has returned: copy falls into the
\* unlink of line 352 (a directory is no file), compile into line 477
AfterRmrf(kind, st, dl) ==
    IF kind = "copy" THEN "unlinkB" ELSE AfterNotFile(kind, st, dl)

\* where the task goes once the unlink at position at has returned.
\* copy: 346 -> 352 -> 357 -> 369 -> 376; compile: 470 -> 477, 478 -> 486, 489 -> 495
AfterUnlink(kind, at, st, dl) ==
    IF kind = "copy"
    THEN (CASE at = "unlinkA" -> "unlinkB"
            [] at = "unlinkB" -> AfterNotFile(kind, st, dl)
            [] at = "unlinkC" -> "link")
    ELSE (CASE at = "unlinkA" -> AfterNotFile(kind, st, dl)
            [] at = "unlinkB" -> AfterIno(kind, st, dl)
            [] at = "unlinkC" -> "transform")

\* fs.stat(src) and the isFile assertion (compile asserts fs.exists first)
TaskStat(i) ==
    /\ i \in DOMAIN tasks
    /\ tasks[i].pc = "stat"
    /\ LET t == tasks[i]
           st == Stat(fs, t.src)
       IN  IF st.kind = "file"
           THEN /\ tasks' = [tasks EXCEPT ![i].pc = "lstat", ![i].srcstat = st]
                /\ UNCHANGED result
           ELSE /\ tasks' = [tasks EXCEPT ![i].pc = "failed"]
                /\ result' = Fail(IF st.kind = "none" /\ t.kind = "copy"
                                  THEN "ENOENT" ELSE "AssertionError", t.src)
    /\ UNCHANGED <<fs, log>>
    /\ TaskFrame

\* fs.lstat(dst), undefined (NoNode) when it throws
TaskLstat(i) ==
    /\ i \in DOMAIN tasks
    /\ tasks[i].pc = "lstat"
    /\ LET t == tasks[i]
           dl == Lstat(fs, t.dst)
       IN  tasks' = [tasks EXCEPT ![i].dstlstat = dl,
                                  ![i].pc = AfterLstat(t.kind, t.srcstat, dl)]
    /\ UNCHANGED <<fs, log, result>>
    /\ TaskFrame

\* rmrf(dst) of lines 331 and 468
TaskRmrf(i) ==
    /\ i \in DOMAIN tasks
    /\ tasks[i].pc = "rmrf"
    /\ LET t == tasks[i]
           gone == {q \in DOMAIN fs : IsUnder(q, t.dst)}
       IN  /\ fs' = Rmrf(fs, t.dst, now)
           /\ log' = [log EXCEPT !.removed = @ \cup {<<"task", q>> : q \in gone}]
           /\ tasks' = [tasks EXCEPT ![i].pc = AfterRmrf(t.kind, t.srcstat, t.dstlstat)]
    /\ UNCHANGED result
    /\ TaskFrame

\* fs.readlink(dst) of line 341 and the comparison of line 342
TaskReadlink(i) ==
    /\ i \in DOMAIN tasks
    /\ tasks[i].pc = "readlink"
    /\ LET t == tasks[i]
           at == Lstat(fs, t.dst)
       IN  IF at.kind # "symlink"
           THEN /\ tasks' = [tasks EXCEPT ![i].pc = "failed"]
                /\ result' = Fail("EINVAL", t.dst)
           ELSE /\ tasks' = [tasks EXCEPT ![i].pc =
                                IF at.target = Relative(Dirname(t.dst), t.src)
                                THEN "done" ELSE "unlinkA"]
                /\ UNCHANGED result
    /\ UNCHANGED <<fs, log>>
    /\ TaskFrame

\* fs.unlink(dst) of lines 346, 352, 369 and 470, 478, 489
TaskUnlink(i) ==
    /\ i \in DOMAIN tasks
    /\ tasks[i].pc \in {"unlinkA", "unlinkB", "unlinkC"}
    /\ LET t == tasks[i]
       IN  IF UnlinkOk(fs, t.dst)
           THEN /\ fs' = Unlink(fs, t.dst, now)
                /\ log' = [log EXCEPT !.removed = @ \cup {<<"task", t.dst>>}]
                /\ tasks' = [tasks EXCEPT ![i].pc =
                                AfterUnlink(t.kind, t.pc, t.srcstat, t.dstlstat)]
                /\ UNCHANGED result
           ELSE /\ tasks' = [tasks EXCEPT ![i].pc = "failed"]
                /\ result' = Fail("ENOENT", t.dst)
                /\ UNCHANGED <<fs, log>>
    /\ TaskFrame

\* fs.link(src, dst) of line 376; a failure leads to the symlink of line 382
TaskLink(i) ==
    /\ i \in DOMAIN tasks
    /\ tasks[i].pc = "link"
    /\ LET t == tasks[i]
       IN  IF linkMode = "hard" /\ LinkOk(fs, t.src, t.dst)
           THEN /\ fs' = Link(fs, t.src, t.dst, now)
                /\ log' = [log EXCEPT !.created = @ \cup {<<"task", t.dst>>}]
                /\ tasks' = [tasks EXCEPT ![i].pc = "done",
                                          ![i].tried = Append(@, "link")]
           ELSE /\ tasks' = [tasks EXCEPT ![i].pc = "symlink",
                                          ![i].tried = Append(@, "link")]
                /\ UNCHANGED <<fs, log>>
    /\ UNCHANGED result
    /\ TaskFrame

\* fs.symlink(path.relative(path.dirname(dst), src), dst) of line 382; a
\* failure leads to the stream copy of lines 386-418
TaskSymlink(i) ==
    /\ i \in DOMAIN tasks
    /\ tasks[i].pc = "symlink"
    /\ LET t == tasks[i]
       IN  IF linkMode \in {"hard", "sym"} /\ SymlinkOk(fs, t.dst)
           THEN /\ fs' = Symlink(fs, Relative(Dirname(t.dst), t.src), t.dst, now)
                /\ log' = [log EXCEPT !.created = @ \cup {<<"task", t.dst>>}]
                /\ tasks' = [tasks EXCEPT ![i].pc = "done",
                                          ![i].tried = Append(@, "symlink")]
           ELSE /\ tasks' = [tasks EXCEPT ![i].pc = "stream",
                                          ![i].tried = Append(@, "symlink")]
                /\ UNCHANGED <<fs, log>>
    /\ UNCHANGED result
    /\ TaskFrame

\* the mode createWriteStream gets at line 389: rs.mode, the open mode of
\* the read stream, not the mode of src
StreamMode == "666"

\* how the promise of lines 386-418 can stand once a stream has emitted
\* 'error'.  The handlers of lines 391-392 and 407-408 only store the error,
\* and res or rej is called by the 'end' handler of the read stream alone.  A
\* read stream that fails never emits 'end': the promise stays pending.  A
\* write stream that fails is unpiped and the read stream stops: the promise
\* stays pending; if the read stream had taken in all of src it still
\* emits 'end', after the error was stored (rej(writeErr)) or before
\* (res()).
StreamErrorOutcomes(readErr, writeErr) ==
    IF readErr THEN {"hung"}
    ELSE IF writeErr THEN {"hung", "done", "failed"}
    ELSE {"piping"}

\* lines 387-416: both streams are opened and piped.  The write stream
\* creates or truncates dst.
TaskStream(i) ==
    /\ i \in DOMAIN tasks
    /\ tasks[i].pc = "stream"
    /\ LET t == tasks[i]
           readErr == Stat(fs, t.src).kind # "file"
           writeErr == ~WriteOk(fs, t.dst)
       IN  /\ IF ~writeErr
              THEN /\ fs' = Write(fs, t.dst, <<>>, StreamMode, now)
                   /\ log' = [log EXCEPT !.created = @ \cup {<<"task", t.dst>>}]
              ELSE UNCHANGED <<fs, log>>
           /\ \E to \in StreamErrorOutcomes(readErr, writeErr) :
                 /\ tasks' = [tasks EXCEPT
                       ![i].pc = to,
                       ![i].out = IF to = "piping" THEN Bytes(fs, t.src) ELSE @,
                       ![i].writes = IF to = "piping" THEN {"data"} ELSE @,
                       ![i].err = IF readErr THEN "read"
                                  ELSE IF writeErr THEN "write" ELSE @,
                       ![i].tried = Append(@, "stream")]
                 /\ result' = IF to = "failed" THEN Fail("ENOENT", t.dst) ELSE result
    /\ TaskFrame

\* the 'end' event of the read stream, lines 394-406: res()
TaskStreamEnd(i) ==
    /\ i \in DOMAIN tasks
    /\ tasks[i].pc = "piping"
    /\ tasks' = [tasks EXCEPT ![i].pc = "done"]
    /\ UNCHANGED <<fs, log, result>>
    /\ TaskFrame

\* _.defaults({}, {sourceMaps: ...}, opts) and BABELtransformFile(src, _opts)
\* of lines 495-505: babel reads src; rej(err) of line 433 makes the await of
\* line 505 throw err
TaskTransform(i) ==
    /\ i \in DOMAIN tasks
    /\ tasks[i].pc = "transform"
    /\ LET t == tasks[i]
       IN  IF Stat(fs, t.src).kind = "file" /\ ~TransformOk(Bytes(fs, t.src))
           THEN /\ tasks' = [tasks EXCEPT
                                ![i].pc = "failed",
                                ![i].opts = TransformOpts(t.src, t.dst, args.babelopts),
                                ![i].calls = @ + 1]
                /\ result' = Fail("SyntaxError", t.src)
                /\ UNCHANGED log
           ELSE IF Stat(fs, t.src).kind = "file"
           THEN /\ tasks' = [tasks EXCEPT
                                ![i].pc = "write",
                                ![i].opts = TransformOpts(t.src, t.dst, args.babelopts),
                                ![i].calls = @ + 1,
                                ![i].out = Bytes(fs, t.src),
                                ![i].writes = {"code", "map"}]
                /\ log' = [log EXCEPT !.transforms = @ \cup {i}]
                /\ UNCHANGED result
           ELSE /\ tasks' = [tasks EXCEPT ![i].pc = "failed"]
                /\ result' = Fail("ENOENT", t.src)
                /\ UNCHANGED log
    /\ UNCHANGED fs
    /\ TaskFrame

\* one write reaches the disk: the two fs.writeFile of lines 513-516 with
\* mode srcstat.mode, or the bytes piped into the write stream of line 416
TaskWrite(i, w) ==
    /\ i \in DOMAIN tasks
    /\ w \in tasks[i].writes
    /\ LET t == tasks[i]
           to == IF w = "map" THEN t.dst \o <<Dot, "map">> ELSE t.dst
           bytes == CASE w = "code" -> CodeFile(t.out, t.dst)
                      [] w = "map" -> MapFile(t.out)
                      [] w = "data" -> t.out
           mode == IF w = "data" THEN StreamMode ELSE t.srcstat.mode
           left == t.writes \ {w}
       IN  IF WriteOk(fs, to)
           THEN /\ fs' = Write(fs, to, bytes, mode, now)
                /\ log' = [log EXCEPT !.created = @ \cup {<<"task", to>>}]
                /\ tasks' = [tasks EXCEPT
                                ![i].writes = left,
                                ![i].pc = IF t.pc = "write" /\ left = {}
                                          THEN "done" ELSE t.pc]
                /\ UNCHANGED result
           ELSE /\ tasks' = [tasks EXCEPT
                                ![i].writes = left,
                                ![i].err = IF w = "data" THEN "write" ELSE @,
                                ![i].pc = CASE t.pc = "write" -> "failed"
                                            [] t.pc = "piping" -> "hung"
                                            [] OTHER -> t.pc]
                /\ result' = IF t.pc = "write" THEN Fail("ENOENT", to) ELSE result
                /\ UNCHANGED <<fs, log>>
    /\ TaskFrame

\* no operation of the run is in flight
Quiet ==
    /\ cleanTodo = {} /\ staleTodo = {} /\ mkTodo = {}
    /\ \A i \in DOMAIN tasks :
          tasks[i].pc \in {"done", "failed", "hung"} /\ tasks[i].writes = {}

\* the await of lines 123-126 returns: run resolves
Finish ==
    /\ pc = "files" /\ result.state = "pending"
    /\ \A i \in DOMAIN tasks : tasks[i].pc = "done"
    /\ pc' = "done"
    /\ result' = Resolved
    /\ UNCHANGED <<fs, now, args, linkMode, runNo, cleanTodo, cstarted, frames, files,
                   allFiles, fileExtra, dirExtra, staleTodo, mkTodo, tasks, fs0, log>>

\* run is called again with the same arguments on the filesystem it left,
\* from which one transform destination may have been deleted by hand
Restart ==
    /\ result.state = "resolved"
    /\ Quiet
    /\ runNo < MaxRuns
    /\ runNo' = runNo + 1
    /\ \E t \in Times :
          /\ t >= now
          /\ now' = t
          /\ \E gone \in {{}} \cup {{x.dst} : x \in {y \in Range(files.com) :
                                                       UnlinkOk(fs, y.dst)}} :
                /\ fs' = IF gone = {} THEN fs
                          ELSE Unlink(fs, CHOOSE g \in gone : TRUE, t)
                /\ log' = [NoLog EXCEPT !.manual = gone]
    /\ pc' = IF forceClean THEN "clean" ELSE "classify"
    /\ result' = Pending
    /\ cleanTodo' = IF forceClean THEN DOMAIN dirMap ELSE {}
    /\ cstarted' = {}
    /\ frames' = NoFrames
    /\ files' = NoFiles
    /\ allFiles' = <<>>
    /\ fileExtra' = <<>>
    /\ dirExtra' = <<>>
    /\ staleTodo' = {}
    /\ mkTodo' = {}
    /\ tasks' = <<>>
    /\ fs0' = fs'
    /\ UNCHANGED <<args, linkMode>>

Next ==
    \/ \E i \in DOMAIN dirMap : CleanPair(i)
    \/ CleanDone
    \/ \E i \in DOMAIN dirMap : ClassifyPair(i)
    \/ \E id \in DOMAIN frames : \E q \in frames[id].pend : ClassifyEntry(id, q)
    \/ \E id \in DOMAIN frames : ClassifyReturn(id)
    \/ Validate
    \/ \E k \in DOMAIN fileExtra : UnlinkStale(k)
    \/ UnlinkDone
    \/ \E k \in DOMAIN dirExtra : RmrfStale(k)
    \/ RmrfDone
    \/ \E k \in DOMAIN files.dir : CreateDirectory(k)
    \/ CreateDirectoriesDone
    \/ \E i \in DOMAIN tasks : TaskStat(i)
    \/ \E i \in DOMAIN tasks : TaskLstat(i)
    \/ \E i \in DOMAIN tasks : TaskRmrf(i)
    \/ \E i \in DOMAIN tasks : TaskReadlink(i)
    \/ \E i \in DOMAIN tasks : TaskUnlink(i)
    \/ \E i \in DOMAIN tasks : TaskLink(i)
    \/ \E i \in DOMAIN tasks : TaskSymlink(i)
    \/ \E i \in DOMAIN tasks : TaskStream(i)
    \/ \E i \in DOMAIN tasks : TaskStreamEnd(i)
    \/ \E i \in DOMAIN tasks : TaskTransform(i)
    \/ \E i \in DOMAIN tasks : \E w \in tasks[i].writes : TaskWrite(i, w)
    \/ Finish
    \/ Restart

Spec == Init /\ [][Next]_vars

-----------------------------------------------------------------------------
(* copy(src, dst) of src/compile.js, lines 290-405, called on its own *)

\* what may lie at o/s/u.txt when copy('a/s/u.txt', 'o/s/u.txt') is called:
\* the entries of StrayNodes, a hard link of the source, a directory, the
\* symbolic link copy would make
LegacyDstNodes ==
    StrayNodes
    \cup {SrcFile(Asu, "755"), Dir(Osu),
          LinkNode(InoAt(Osu, 0), SrcTime, Relative(Dirname(Osu), Asu))}

\* the filesystems of the call: o/s/u.txt absent or one of LegacyDstNodes
LegacyTrees ==
    {TreeA @@ (O :> Dir(O)) @@ (Os :> Dir(Os))}
    \cup {TreeA @@ TreeOStray(n) : n \in LegacyDstNodes}

LegacyInit ==
    \E tree \in LegacyTrees, lm \in AllLinks, t \in Times :
        /\ fs = tree
        /\ now = t
        /\ args = [dirMap |-> <<Pair(Asu, Osu)>>, babelopts |-> NoOpts,
                   forceClean |-> "false"]
        /\ linkMode = lm
        /\ runNo = 1
        /\ pc = "files"
        /\ result = Pending
        /\ cleanTodo = {}
        /\ cstarted = {1}
        /\ frames = NoFrames
        /\ files = [NoFiles EXCEPT !.cop = <<Pair(Asu, Osu)>>]
        /\ allFiles = <<Osu>>
        /\ fileExtra = <<>>
        /\ dirExtra = <<>>
        /\ staleTodo = {}
        /\ mkTodo = {}
        /\ tasks = <<NewTask("copy", Pair(Asu, Osu))>>
        /\ fs0 = tree
        /\ log = NoLog

\* lines 297-298: fs.stat(src) and the isFile assertion
LegacyStat(i) ==
    /\ i \in DOMAIN tasks
    /\ tasks[i].pc = "stat"
    /\ LET t == tasks[i]
           st == Stat(fs, t.src)
       IN  IF st.kind = "file"
           THEN /\ tasks' = [tasks EXCEPT ![i].pc = "lstat", ![i].srcstat = st]
                /\ UNCHANGED result
           ELSE /\ tasks' = [tasks EXCEPT ![i].pc = "failed"]
                /\ result' = Fail(IF st.kind = "none" THEN "ENOENT"
                                  ELSE "AssertionError", t.src)
    /\ UNCHANGED <<fs, log>>
    /\ TaskFrame

\* where the call goes once lstat(dst) has returned dl, lines 303-337: a
\* directory is removed, a symbolic link is read, a regular file goes to
\* the second stat of line 341
LegacyAfterLstat(dl) ==
    IF dl.kind = "none" THEN "link"
    ELSE IF dl.kind = "dir" THEN "rmrf"
    ELSE IF dl.kind = "symlink" THEN "readlink"
    ELSE "compare"

\* lines 303-308: fs.lstat(dst), undefined when it throws
LegacyLstat(i) ==
    /\ i \in DOMAIN tasks
    /\ tasks[i].pc = "lstat"
    /\ LET dl == Lstat(fs, tasks[i].dst)
       IN  tasks' = [tasks EXCEPT ![i].dstlstat = dl, ![i].pc = LegacyAfterLstat(dl)]
    /\ UNCHANGED <<fs, log, result>>
    /\ TaskFrame

\* lines 314-316: rmrf(dst); a directory is no file, so line 336 follows
LegacyRmrf(i) ==
    /\ i \in DOMAIN tasks
    /\ tasks[i].pc = "rmrf"
    /\ LET t == tasks[i]
           gone == {q \in DOMAIN fs : IsUnder(q, t.dst)}
       IN  /\ fs' = Rmrf(fs, t.dst, now)
           /\ log' = [log EXCEPT !.removed = @ \cup {<<"task", q>> : q \in gone}]
           /\ tasks' = [tasks EXCEPT ![i].pc = "unlinkB"]
    /\ UNCHANGED result
    /\ TaskFrame

\* lines 323-331: fs.readlink(dst) and the comparison with the link copy
\* would make
LegacyReadlink(i) ==
    /\ i \in DOMAIN tasks
    /\ tasks[i].pc = "readlink"
    /\ LET t == tasks[i]
           at == Lstat(fs, t.dst)
       IN  IF at.kind # "symlink"
           THEN /\ tasks' = [tasks EXCEPT ![i].pc = "failed"]
                /\ result' = Fail("EINVAL", t.dst)
           ELSE /\ tasks' = [tasks EXCEPT ![i].pc =
                                IF at.target = Relative(Dirname(t.dst), t.src)
                                THEN "done" ELSE "unlinkA"]
                /\ UNCHANGED result
    /\ UNCHANGED <<fs, log>>
    /\ TaskFrame

\* fs.unlink(dst) of line 330 (then line 336 follows) and of line 336 (then
\* line 341 follows)
LegacyUnlink(i) ==
    /\ i \in DOMAIN tasks
    /\ tasks[i].pc \in {"unlinkA", "unlinkB"}
    /\ LET t == tasks[i]
       IN  IF UnlinkOk(fs, t.dst)
           THEN /\ fs' = Unlink(fs, t.dst, now)
                /\ log' = [log EXCEPT !.removed = @ \cup {<<"task", t.dst>>}]
                /\ tasks' = [tasks EXCEPT ![i].pc =
                                IF t.pc = "unlinkA" THEN "unlinkB" ELSE "compare"]
                /\ UNCHANGED result
           ELSE /\ tasks' = [tasks EXCEPT ![i].pc = "failed"]
                /\ result' = Fail("ENOENT", t.dst)
                /\ UNCHANGED <<fs, log>>
    /\ TaskFrame

\* lines 341-355.  srclstat is declared nowhere in copy.  With equal inodes
\* the second operand of && at line 342 reads it; with different inodes &&
\* stops at its first operand and the comparison of line 351 reads it: a
\* ReferenceError is thrown either way, and neither return nor the unlink of
\* line 354 is reached.
LegacyCompareOutcome(st, dl) ==
    IF st.ino = dl.ino THEN "ReferenceError" ELSE "ReferenceError"

\* lines 341-355: the second fs.stat(src) and the two comparisons
LegacyCompare(i) ==
    /\ i \in DOMAIN tasks
    /\ tasks[i].pc = "compare"
    /\ LET t == tasks[i]
           st == Stat(fs, t.src)
       IN  IF st.kind = "none"
           THEN /\ tasks' = [tasks EXCEPT ![i].pc = "failed"]
                /\ result' = Fail("ENOENT", t.src)
           ELSE /\ tasks' = [tasks EXCEPT ![i].pc = "failed", ![i].srcstat = st]
                /\ result' = Fail(LegacyCompareOutcome(st, t.dstlstat), t.dst)
    /\ UNCHANGED <<fs, log>>
    /\ TaskFrame

\* the call settles: copy has returned
LegacyFinish ==
    /\ pc = "files" /\ result.state = "pending"
    /\ \A i \in DOMAIN tasks : tasks[i].pc = "done"
    /\ pc' = "done"
    /\ result' = Resolved
    /\ UNCHANGED <<fs, now, args, linkMode, runNo, cleanTodo, cstarted, frames, files,
                   allFiles, fileExtra, dirExtra, staleTodo, mkTodo, tasks, fs0, log>>

\* the link chain of lines 357-404 is that of lines 374-420 of lib/compile.js
LegacyNext ==
    \/ \E i \in DOMAIN tasks : LegacyStat(i)
    \/ \E i \in DOMAIN tasks : LegacyLstat(i)
    \/ \E i \in DOMAIN tasks : LegacyRmrf(i)
    \/ \E i \in DOMAIN tasks : LegacyReadlink(i)
    \/ \E i \in DOMAIN tasks : LegacyUnlink(i)
    \/ \E i \in DOMAIN tasks : LegacyCompare(i)
    \/ \E i \in DOMAIN tasks : TaskLink(i)
    \/ \E i \in DOMAIN tasks : TaskSymlink(i)
    \/ \E i \in DOMAIN tasks : TaskStream(i)
    \/ \E i \in DOMAIN tasks : TaskStreamEnd(i)
    \/ \E i \in DOMAIN tasks : \E w \in tasks[i].writes : TaskWrite(i, w)
    \/ LegacyFinish

LegacySpec == LegacyInit /\ [][LegacyNext]_vars

-----------------------------------------------------------------------------
(* What the claims speak about *)

Roots == {dirMap[i].dst : i \in DOMAIN dirMap}

UnderRoot(p) == \E r \in Roots : IsUnder(p, r)

UnderSource(p) == \E i \in DOMAIN dirMap : IsUnder(p, dirMap[i].src)

\* how often p is written: as a transform destination, as a copy
\* destination, as a transform destination + '.map'
WriteCount(p) ==
    Cardinality({i \in DOMAIN files.com : files.com[i].dst = p})
    + Cardinality({i \in DOMAIN files.cop : files.cop[i].dst = p})
    + Cardinality({i \in DOMAIN files.com : files.com[i].dst \o <<Dot, "map">> = p})

WrittenPaths ==
    {files.com[i].dst : i \in DOMAIN files.com}
    \cup {files.cop[i].dst : i \in DOMAIN files.cop}
    \cup {files.com[i].dst \o <<Dot, "map">> : i \in DOMAIN files.com}

InputPaths ==
    {files.com[i].src : i \in DOMAIN files.com}
    \cup {files.cop[i].src : i \in DOMAIN files.cop}

ExpectedDirs == Range(files.dir)

DupPaths == {p \in WrittenPaths : WriteCount(p) > 1}

OverlapPaths == WrittenPaths \cap InputPaths

\* classification is over and the validation has run
Validated == pc \notin {"clean", "classify"}

Untouched == fs = fs0 /\ log.removed = {} /\ log.created = {}

-----------------------------------------------------------------------------
(* The claims *)

\* C1: run never deletes, replaces or rewrites a path that is a pairing's
\* source or lies under a pairing's source directory, in force-clean and in
\* incremental mode, also when a destination is equal to or an ancestor of
\* a source: every such path of the filesystem run was called on is still
\* there, of the same kind, and if it is no directory with the same inode,
\* bytes, mode and modification time.
C1_InputsKept ==
    \A p \in DOMAIN fs0 :
        UnderSource(p) =>
            /\ p \in DOMAIN fs
            /\ fs[p].kind = fs0[p].kind
            /\ fs0[p].kind # "dir" => fs[p] = fs0[p]

\* C2: whenever run has rejected with the missing-source assertion, with
\* InputOutputOverlap or with FoundDuplicates, it has mutated nothing: the
\* filesystem is the one it was called on and no path was removed or created.
C2_PreflightLeavesAllUntouched ==
    (/\ result.state = "rejected"
     /\ \/ result.code \in {"InputOutputOverlap", "FoundDuplicates"}
        \/ result.code = "AssertionError" /\ pc = "classify")
    => Untouched

\* some pairing's destination is equal to, or an ancestor of, another
\* pairing's source
DestinationAboveSource ==
    \E i, j \in DOMAIN dirMap : i # j /\ IsUnder(dirMap[j].src, dirMap[i].dst)

\* C3: given two pairings where one's destination is equal to, or an
\* ancestor of, the other's source, run writes nothing and, when it
\* settles, has rejected with InputOutputOverlap.
C3_DestinationAboveSourceRejected ==
    DestinationAboveSource =>
        /\ Untouched
        /\ result.state # "pending" =>
              result.state = "rejected" /\ result.code = "InputOutputOverlap"

\* C4: when the written paths (transform destinations, copy destinations,
\* transform destinations + '.map') hold a value more than once and none of
\* them is an input path, run rejects with FoundDuplicates and err.dupes
\* lists every path that occurs more than once.
C4_DuplicatesRejected ==
    (Validated /\ DupPaths # {} /\ OverlapPaths = {}) =>
        /\ result.state = "rejected"
        /\ result.code = "FoundDuplicates"
        /\ Range(result.paths) = DupPaths

\* C4 witness: rejected for a copy destination equal to a source map path
C4_Witness ==
    /\ result.code = "FoundDuplicates"
    /\ \E i \in DOMAIN files.cop : \E j \in DOMAIN files.com :
          files.cop[i].dst = files.com[j].dst \o <<Dot, "map">>

\* C5: once classification is over, run has rejected with
\* InputOutputOverlap exactly when some written path is an input path, and
\* err.overlap is then exactly the set of these paths.
C5_OverlapExactly ==
    Validated =>
        /\ (result.state = "rejected" /\ result.code = "InputOutputOverlap")
              <=> OverlapPaths # {}
        /\ result.code = "InputOutputOverlap" => Range(result.paths) = OverlapPaths

\* C5 witness: rejected with an overlap that is a copy source
C5_Witness ==
    /\ result.code = "InputOutputOverlap"
    /\ \E i \in DOMAIN files.cop : files.cop[i].src \in Range(result.paths)

\* C6: the phases are ordered.  Validation starts only when every
\* classification task has completed; a stale entry is removed or a
\* directory created only when validation has passed; a copy or compile
\* task starts only when every directory-creation task has completed.
C6_PhasesOrdered ==
    /\ Validated => (cstarted = DOMAIN dirMap /\ DOMAIN frames = {})
    /\ (\/ staleTodo # {} \/ mkTodo # {}
        \/ \E e \in log.removed : e[1] = "stale"
        \/ \E e \in log.created : e[1] = "mkdir")
       => (/\ cstarted = DOMAIN dirMap /\ DOMAIN frames = {}
           /\ OverlapPaths = {} /\ DupPaths = {}
           /\ result.code \notin {"InputOutputOverlap", "FoundDuplicates"})
    /\ DOMAIN tasks # {} => mkTodo = {}

\* C6 witness: a compile or copy task has started after stale entries were
\* removed and directories created
C6_Witness ==
    /\ \E i \in DOMAIN tasks : tasks[i].pc # "stat"
    /\ \E e \in log.removed : e[1] = "stale"
    /\ \E e \in log.created : e[1] = "mkdir"

\* C7: after a successful run in incremental mode every file under a
\* pairing's destination root is a will-be-written path and every directory
\* there is an expected directory (one of files.dir).
C7_OnlyProducedRemains ==
    (result.state = "resolved" /\ args.forceClean = "false") =>
        \A p \in DOMAIN fs :
            UnderRoot(p) =>
                IF fs[p].kind = "dir" THEN p \in ExpectedDirs ELSE p \in WrittenPaths

\* C7 as amended: after a successful run in incremental mode every file
\* under a pairing's destination root is a will-be-written path and every
\* directory there is an expected directory or a path segment above one
\* (which mkdirp creates on the way to it).
C7_OnlyProducedOrAboveRemains ==
    (result.state = "resolved" /\ args.forceClean = "false") =>
        \A p \in DOMAIN fs :
            UnderRoot(p) =>
                IF fs[p].kind = "dir"
                THEN \E d \in ExpectedDirs : IsUnder(d, p)
                ELSE p \in WrittenPaths

\* C7 witness: an incremental run has resolved and the stray legacy.js.map
\* and the stray directory of its destination are gone
C7_Witness ==
    /\ result.state = "resolved" /\ args.forceClean = "false"
    /\ Olegacy \in DOMAIN fs0 /\ Olegacy \notin DOMAIN fs
    /\ Og \in DOMAIN fs0 /\ Og \notin DOMAIN fs

\* C8: in incremental mode the stale removal removes no path that is a
\* will-be-written file or an expected directory of the run, neither
\* directly nor with a directory above it.
C8_StaleRemovalSparesProduced ==
    args.forceClean = "false" =>
        \A e \in log.removed :
            e[1] = "stale" =>
                /\ ~(e[2] \in WrittenPaths /\ fs0[e[2]].kind # "dir")
                /\ ~(e[2] \in ExpectedDirs /\ fs0[e[2]].kind = "dir")

\* C9: with forceClean true or not given, every path at or below a
\* pairing's destination root has been removed when classification starts
\* and no root exists while it runs; with forceClean false nothing is
\* removed before classification and validation are over.
C9_CleanBeforeClassification ==
    /\ (args.forceClean \in {"true", "absent"} /\ (pc # "clean" \/ cstarted # {}))
       => \A p \in DOMAIN fs0 : UnderRoot(p) => <<"clean", p>> \in log.removed
    /\ (args.forceClean \in {"true", "absent"} /\ pc = "classify")
       => \A r \in Roots : r \notin DOMAIN fs
    /\ (args.forceClean = "false" /\ ~Validated)
       => (log.removed = {} /\ fs = fs0)

\* C9 witness: forceClean is not given, a destination root existed and
\* classification has started
C9_Witness ==
    /\ args.forceClean = "absent"
    /\ pc = "classify" /\ cstarted # {}
    /\ \E r \in Roots : r \in DOMAIN fs0

\* the bytes of every file at or below a destination root
DestinationBytes(f) ==
    [p \in {q \in DOMAIN f : UnderRoot(q) /\ f[q].kind # "dir"} |-> Bytes(f, p)]

\* C10: a second run on unchanged inputs leaves identical destination
\* bytes and does not invoke the transform for any transform item whose
\* destination mtime is greater than or equal to its source mtime.
C10_SecondRunSkipsUpToDate ==
    /\ (runNo >= 2 /\ log.manual = {} /\ result.state = "resolved" /\ Quiet)
       => DestinationBytes(fs) = DestinationBytes(fs0)
    /\ (runNo >= 2 /\ log.manual = {}) =>
          \A i \in log.transforms :
              ~(/\ tasks[i].dst \in DOMAIN fs0
                /\ fs0[tasks[i].dst].mtime >= Stat(fs0, tasks[i].src).mtime)

-----------------------------------------------------------------------------
(* Claims C11 to C20 *)

\* the extension of p is .js or .jsx
HasJsExtension(p) ==
    /\ Len(p) >= 3
    /\ p[Len(p)] \in {"js", "jsx"}
    /\ p[Len(p) - 1] = Dot
    /\ p[Len(p) - 2] # Sep

\* the destination of the source path p at or below src, for the pairing
\* src -> dst
MappedTo(src, dst, p) == dst \o SubSeq(p, Len(src) + 1, Len(p))

\* how often v occurs in seq
Count(seq, v) == Cardinality({k \in DOMAIN seq : seq[k] = v})

\* the pairings of a directory whose destination did not exist when run was
\* first called
FreshDirPairs ==
    {i \in DOMAIN dirMap :
        /\ dirMap[i].src \in DOMAIN fs0
        /\ fs0[dirMap[i].src].kind = "dir"
        /\ dirMap[i].dst \notin DOMAIN fs0}

\* C11: after a successful run with default options over a directory pairing
\* whose destination did not exist, every .js or .jsx source file has its
\* destination and destination + '.map' as regular files, every other source
\* file has its destination, with the inode of the source when hard links
\* work, and every source directory, empty ones too, is a directory of the
\* destination.
C11_DefaultRunProduces ==
    (result.state = "resolved" /\ args.forceClean = "absent" /\ runNo = 1) =>
        \A i \in FreshDirPairs : \A p \in DOMAIN fs0 :
            IsUnder(p, dirMap[i].src) =>
                LET d == MappedTo(dirMap[i].src, dirMap[i].dst, p)
                IN  CASE fs0[p].kind = "dir" -> Lstat(fs, d).kind = "dir"
                      [] fs0[p].kind # "dir" /\ HasJsExtension(p) ->
                            /\ Lstat(fs, d).kind = "file"
                            /\ Lstat(fs, d \o <<Dot, "map">>).kind = "file"
                      [] OTHER ->
                            /\ d \in DOMAIN fs
                            /\ linkMode = "hard" =>
                                  (fs[d].kind = "file" /\ fs[d].ino = fs0[p].ino)

\* C11 witness: a default run over c -> o has resolved, with the .jsx file
\* compiled and the empty directory made
C11_Witness ==
    /\ result.state = "resolved" /\ args.forceClean = "absent" /\ runNo = 1
    /\ dirMap = <<Pair(C, O)>>
    /\ Lstat(fs, MappedTo(C, O, Ce)).kind = "dir"
    /\ Lstat(fs, MappedTo(C, O, Cw) \o <<Dot, "map">>).kind = "file"

\* the tasks of the destinations that were not deleted by hand
OtherTasks == {i \in DOMAIN tasks : tasks[i].dst \notin log.manual}

\* no step of the run has removed or created p
Spared(p) ==
    /\ \A e \in log.removed : e[2] # p
    /\ \A e \in log.created : e[2] # p

\* the destination deleted by hand is there again with its '.map' file
DeletedRecreated ==
    \A g \in log.manual :
        /\ Lstat(fs, g).kind = "file"
        /\ Lstat(fs, g \o <<Dot, "map">>).kind = "file"
        /\ \E i \in log.transforms : tasks[i].dst = g

FoundUpToDate(t) ==
    \/ /\ t.kind = "copy"
       /\ t.dstlstat.kind = "symlink"
       /\ t.dstlstat.target = Relative(Dirname(t.dst), t.src)
    \/ /\ t.kind = "copy"
       /\ t.dstlstat.kind = "file"
       /\ t.dstlstat.ino = t.srcstat.ino
    \/ /\ t.dstlstat.kind = "file"
       /\ t.dstlstat.ino # t.srcstat.ino
       /\ t.dstlstat.mtime > t.srcstat.mtime

Returning == {id \in DOMAIN frames : frames[id].pend = {} /\ frames[id].kids = {}}

\* C13: under every interleaving of the entry tasks, what classifyDirectory
\* returns for a directory holds every file of the tree exactly once, in com
\* when its extension is .js or .jsx and in cop otherwise, and every
\* directory of the tree, the root and empty ones too, exactly once in dir,
\* each mapped to dst joined with its path relative to src, and nothing else.
C13_ClassifiesEveryEntryOnce ==
    pc = "classify" =>
        \A id \in Returning :
            LET src == id[2]
                dst == frames[id].dst
                res == frames[id].res
                tree == {p \in DOMAIN fs : IsUnder(p, src)}
            IN  /\ \A p \in tree :
                      LET to == MappedTo(src, dst, p)
                      IN  CASE fs[p].kind = "dir" -> Count(res.dir, to) = 1
                            [] fs[p].kind # "dir" /\ HasJsExtension(p) ->
                                  /\ Count(res.com, Pair(p, to)) = 1
                                  /\ Count(res.cop, Pair(p, to)) = 0
                            [] OTHER ->
                                  /\ Count(res.cop, Pair(p, to)) = 1
                                  /\ Count(res.com, Pair(p, to)) = 0
                /\ Len(res.dir) = Cardinality({p \in tree : fs[p].kind = "dir"})
                /\ Len(res.com) + Len(res.cop)
                      = Cardinality({p \in tree : fs[p].kind # "dir"})

\* C13 witness: the call for a pairing's source is about to return with the
\* merged result of a sub-directory
C13_Witness ==
    /\ pc = "classify"
    /\ \E id \in Returning :
          /\ frames[id].parent = Top
          /\ Len(frames[id].res.dir) >= 2
          /\ Len(frames[id].res.com) + Len(frames[id].res.cop) >= 2

\* the pairings whose source is no directory, once their task has run
FilePairs ==
    {i \in cstarted : dirMap[i].src \in DOMAIN fs /\ fs[dirMap[i].src].kind # "dir"}

\* C14: for a source that is no directory classifyDirectory returns no
\* directory and exactly one item {src, dst}, in com when the extension of
\* src is .js or .jsx and in cop otherwise.
C14_SingleFileClassified ==
    pc = "classify" =>
        /\ \A i \in FilePairs :
              LET item == Pair(dirMap[i].src, dirMap[i].dst)
                  js == HasJsExtension(dirMap[i].src)
              IN  /\ Count(files.com, item) = (IF js THEN 1 ELSE 0)
                  /\ Count(files.cop, item) = (IF js THEN 0 ELSE 1)
        /\ (FilePairs = DOMAIN dirMap) =>
              /\ files.dir = <<>>
              /\ Len(files.com) + Len(files.cop) = Len(dirMap)

\* C14 witness: the single pairing a/x.js -> o/y.js is classified
C14_Witness ==
    /\ pc = "classify"
    /\ dirMap = <<Pair(Ax, Oy)>>
    /\ FilePairs = {1}
    /\ files = [dir |-> <<>>, cop |-> <<>>, com |-> <<Pair(Ax, Oy)>>]

\* what classifyDirectory(src, dst) returns when every entry task finishes
\* before the next one starts
RECURSIVE InOrder(_, _, _)
RECURSIVE InOrderEntries(_, _, _, _)
InOrder(f, src, dst) ==
    IF f[src].kind # "dir" THEN PushFile(NoFiles, src, dst)
    ELSE InOrderEntries(f, SortSet(Entries(f, src)), dst,
                        [NoFiles EXCEPT !.dir = <<dst>>])
InOrderEntries(f, es, dst, res) ==
    IF es = <<>> THEN res
    ELSE LET q == Head(es)
             to == Join(dst, Basename(q))
         IN  InOrderEntries(f, Tail(es), dst,
                            IF f[q].kind = "dir" THEN Merge(res, InOrder(f, q, to))
                            ELSE PushFile(res, q, to))

\* what classifyDirMap returns when every pairing's task finishes before
\* the next one starts
RECURSIVE InOrderPairs(_, _)
InOrderPairs(f, ps) ==
    IF ps = <<>> THEN NoFiles
    ELSE Merge(InOrder(f, Head(ps).src, Head(ps).dst), InOrderPairs(f, Tail(ps)))

\* C15: the com and cop lists classification returns are the same, with the
\* same items in the same order, under every interleaving: they are the
\* lists of the interleaving in which the tasks finish one after the other.
C15_ClassificationOrderFixed ==
    (pc = "classify" /\ ClassifyFinished /\ result.state = "pending") =>
        /\ files.com = InOrderPairs(fs, dirMap).com
        /\ files.cop = InOrderPairs(fs, dirMap).cop

\* the copy tasks whose lstat of the destination has returned
CopiesPastLstat ==
    {i \in DOMAIN tasks : tasks[i].kind = "copy" /\ tasks[i].pc \notin {"stat", "lstat"}}

\* no copy or compile step has removed p
NotRemovedByTask(p) == \A e \in log.removed : e[1] = "task" => e[2] # p

\* no copy or compile step has removed or created p
UntouchedByTask(p) ==
    /\ NotRemovedByTask(p)
    /\ \A e \in log.created : e[1] = "task" => e[2] # p

\* seq is the beginning of whole
IsPrefix(seq, whole) == Len(seq) <= Len(whole) /\ seq = SubSeq(whole, 1, Len(seq))

\* C16: when dst does not exist copy makes dst a hard link of src (same
\* inode) if hard links work, else a symbolic link that leads to src, else a
\* regular file with the bytes of src; a later step is tried only after the
\* one before it failed and no step is tried twice.
C16_LinkSymlinkCopyChain ==
    \A i \in CopiesPastLstat :
        LET t == tasks[i]
        IN  t.dstlstat.kind = "none" =>
              /\ IsPrefix(t.tried, <<"link", "symlink", "stream">>)
              /\ (t.pc = "done" /\ t.writes = {} /\ t.err = ""
                    /\ NotRemovedByTask(t.dst)) =>
                    CASE linkMode = "hard" ->
                            /\ t.tried = <<"link">>
                            /\ Lstat(fs, t.dst).kind = "file"
                            /\ Lstat(fs, t.dst).ino = t.srcstat.ino
                      [] linkMode = "sym" ->
                            /\ t.tried = <<"link", "symlink">>
                            /\ Lstat(fs, t.dst).kind = "symlink"
                            /\ Follow(fs, t.dst, MaxLinkDepth)
                                  = Follow(fs, t.src, MaxLinkDepth)
                      [] OTHER ->
                            /\ t.tried = <<"link", "symlink", "stream">>
                            /\ Lstat(fs, t.dst).kind = "file"
                            /\ Lstat(fs, t.dst).ino # t.srcstat.ino
                            /\ Bytes(fs, t.dst) = Bytes(fs, t.src)

\* C16 witness: with neither kind of link working a copy has made a regular
\* file with the bytes of the source
C16_Witness ==
    \E i \in CopiesPastLstat :
        /\ tasks[i].dstlstat.kind = "none"
        /\ tasks[i].pc = "done" /\ tasks[i].writes = {}
        /\ tasks[i].tried = <<"link", "symlink", "stream">>
        /\ Bytes(fs, tasks[i].dst) = Bytes(fs, tasks[i].src)

\* the copy tasks that found a regular file of its own at the destination
CopiesOntoOwnFile ==
    {i \in CopiesPastLstat :
        /\ tasks[i].dstlstat.kind = "file"
        /\ tasks[i].dstlstat.ino # tasks[i].srcstat.ino}

\* copy task i has removed its destination and made it anew from the source
Recreated(i) ==
    /\ <<"task", tasks[i].dst>> \in log.removed
    /\ <<"task", tasks[i].dst>> \in log.created
    /\ tasks[i].tried # <<>>

\* copy task i has returned and has left its destination as lstat found it
LeftAlone(i) ==
    /\ tasks[i].pc = "done"
    /\ tasks[i].tried = <<>>
    /\ UntouchedByTask(tasks[i].dst)
    /\ Lstat(fs, tasks[i].dst) = tasks[i].dstlstat

\* C17: when dst is a regular file that is not a hard link of src and is
\* newer than or as old as src, copy returns and leaves dst alone; only
\* when src is strictly newer is dst removed and made anew.
C17_CopyKeepsNewerOrEqual ==
    \A i \in CopiesOntoOwnFile :
        IF tasks[i].dstlstat.mtime >= tasks[i].srcstat.mtime
        THEN LeftAlone(i)
        ELSE tasks[i].pc = "done" => Recreated(i)

\* C17 as amended: when dst is a regular file that is not a hard link of src
\* and is strictly newer than src, copy returns and leaves dst alone; when
\* dst is older than or as old as src it is removed and made anew.
C17_CopyKeepsStrictlyNewer ==
    \A i \in CopiesOntoOwnFile :
        IF tasks[i].dstlstat.mtime > tasks[i].srcstat.mtime
        THEN LeftAlone(i)
        ELSE /\ tasks[i].pc # "done" \/ Recreated(i)
             /\ ~LeftAlone(i)

\* C17 witness: a copy has removed a destination as old as its source and
\* has made it anew
C17_Witness ==
    \E i \in CopiesOntoOwnFile :
        /\ tasks[i].dstlstat.mtime = tasks[i].srcstat.mtime
        /\ tasks[i].pc = "done"
        /\ Recreated(i)

\* C18: copy returns without any change of the filesystem when dst is a
\* symbolic link whose target is the path of src relative to the directory
\* of dst, and when dst is a regular file with the inode of src.
C18_CopyKeepsItsOwnLinks ==
    \A i \in CopiesPastLstat :
        LET t == tasks[i]
        IN  (\/ /\ t.dstlstat.kind = "symlink"
                /\ t.dstlstat.target = Relative(Dirname(t.dst), t.src)
             \/ /\ t.dstlstat.kind = "file"
                /\ t.dstlstat.ino = t.srcstat.ino)
            => /\ t.pc \in {"readlink", "done"}
               /\ t.tried = <<>>
               /\ UntouchedByTask(t.dst)
               /\ Lstat(fs, t.dst) = t.dstlstat

\* C18 witness: a copy has returned on finding its own symbolic link
C18_Witness ==
    \E i \in CopiesPastLstat :
        /\ tasks[i].dstlstat.kind = "symlink"
        /\ tasks[i].dstlstat.target = Relative(Dirname(tasks[i].dst), tasks[i].src)
        /\ tasks[i].pc = "done"

\* copy task i, having returned, has dst linked to or copied from src
LinkedOrCopied(i) ==
    /\ tasks[i].tried # <<>>
    /\ tasks[i].dst \in DOMAIN fs
    /\ Follow(fs, tasks[i].dst, MaxLinkDepth) \in DOMAIN fs
    /\ tasks[i].writes = {} => Bytes(fs, tasks[i].dst) = Bytes(fs, tasks[i].src)

\* C19: when dst is a directory copy removes it recursively, goes on to the
\* hardlink/symlink/copy chain and resolves with dst linked to or copied
\* from src.
C19_CopyReplacesDirectory ==
    \A i \in CopiesPastLstat :
        tasks[i].dstlstat.kind = "dir" =>
            /\ tasks[i].pc # "failed"
            /\ tasks[i].pc = "done" => LinkedOrCopied(i)

\* C20: when dst is a symbolic link whose target is not the path of src
\* relative to the directory of dst, copy removes the link, makes dst anew
\* by the hardlink/symlink/copy chain and resolves.
C20_CopyReplacesStaleLink ==
    \A i \in CopiesPastLstat :
        (/\ tasks[i].dstlstat.kind = "symlink"
         /\ tasks[i].dstlstat.target # Relative(Dirname(tasks[i].dst), tasks[i].src))
        => /\ tasks[i].pc # "failed"
           /\ tasks[i].pc = "done" => LinkedOrCopied(i)

-----------------------------------------------------------------------------
(* Claims C21 to C30 *)

\* the copy tasks whose byte copy has met a read or a write error
CopiesWithStreamError ==
    {i \in DOMAIN tasks : tasks[i].kind = "copy" /\ tasks[i].err # ""}

\* C21: when the byte copy of copy meets a read or a write error the
\* promise copy returned rejects: it neither resolves as if the copy had
\* succeeded nor stays pending for ever.
C21_StreamErrorRejects ==
    \A i \in CopiesWithStreamError : tasks[i].pc = "failed"

\* the copy tasks that have resolved after a byte copy without an error
ByteCopies ==
    {i \in DOMAIN tasks :
        /\ tasks[i].kind = "copy" /\ tasks[i].pc = "done"
        /\ tasks[i].tried = <<"link", "symlink", "stream">>
        /\ tasks[i].err = "" /\ tasks[i].writes = {}
        /\ NotRemovedByTask(tasks[i].dst)}

\* C22: when copy falls back to the byte copy the file it makes at dst has
\* the permission bits of src.
C22_ByteCopyKeepsMode ==
    \A i \in ByteCopies :
        Lstat(fs, tasks[i].dst).kind = "file"
            => Lstat(fs, tasks[i].dst).mode = tasks[i].srcstat.mode

\* the compile tasks that have called the transform
Transforming == {i \in DOMAIN tasks : tasks[i].kind = "compile" /\ tasks[i].calls > 0}

\* the option keys compile sets itself
OwnKeys == {"sourceMaps", "sourceFileName", "sourceMapTarget", "sourceRoot"}

\* C23: the options compile hands to the transform have sourceMaps true,
\* sourceFileName the basename of src, sourceMapTarget the basename of dst
\* and sourceRoot the path from the directory of dst to the directory of
\* src, whatever the caller gave for these keys; every other key of the
\* caller is handed on unchanged.
C23_OwnOptionsWin ==
    \A i \in Transforming :
        LET t == tasks[i]
        IN  /\ DOMAIN t.opts = OwnKeys \cup DOMAIN args.babelopts
            /\ t.opts["sourceMaps"] = <<"true">>
            /\ t.opts["sourceFileName"] = Basename(t.src)
            /\ t.opts["sourceMapTarget"] = Basename(t.dst)
            /\ t.opts["sourceRoot"] = Relative(Dirname(t.dst), Dirname(t.src))
            /\ \A k \in DOMAIN args.babelopts \ OwnKeys :
                  t.opts[k] = args.babelopts[k]

\* C23 witness: the transform was called for a caller who asked for no
\* source maps and a source root of their own, beside a key of their own
C23_Witness ==
    \E i \in Transforming :
        /\ "sourceMaps" \in DOMAIN args.babelopts
        /\ args.babelopts["sourceMaps"] = <<"false">>
        /\ args.babelopts["sourceRoot"] # tasks[i].opts["sourceRoot"]
        /\ tasks[i].opts["presets"] = <<"es2015">>

\* the compile tasks that have resolved after writing both files
Compiled ==
    {i \in Transforming : tasks[i].pc = "done" /\ tasks[i].writes = {}}

\* the path of the source map of compile task i
MapOf(i) == tasks[i].dst \o <<Dot, "map">>

\* the bytes at dst and at dst + '.map' once compile task i has resolved:
\* the code with the comment that names the map, the map pretty-printed
WrittenAsClaimed(i) ==
    /\ Lstat(fs, tasks[i].dst).kind = "file"
    /\ Lstat(fs, MapOf(i)).kind = "file"
    /\ Lstat(fs, tasks[i].dst).data =
          TransformCode(tasks[i].out) \o <<"\n//# sourceMappingURL=">>
              \o Basename(tasks[i].dst) \o <<Dot, "map">>
    /\ Lstat(fs, MapOf(i)).data = JsonPretty(TransformMap(tasks[i].out)) \o <<"\n">>

\* p was there when run was called and the run has not removed it
KeptSinceCall(p) ==
    /\ p \in DOMAIN fs0
    /\ \A e \in log.removed : e[2] # p

CompilesPastLstat ==
    {i \in DOMAIN tasks :
        tasks[i].kind = "compile" /\ tasks[i].pc \notin {"stat", "lstat"}}

\* the compile tasks that found a regular file of its own at the destination
CompilesOntoOwnFile ==
    {i \in CompilesPastLstat :
        /\ tasks[i].dstlstat.kind = "file"
        /\ tasks[i].dstlstat.ino # tasks[i].srcstat.ino}

\* compile task i has returned without calling the transform and has left
\* dst and dst + '.map' as they were
Skipped(i) ==
    /\ tasks[i].pc = "done"
    /\ tasks[i].calls = 0
    /\ UntouchedByTask(tasks[i].dst)
    /\ UntouchedByTask(MapOf(i))
    /\ Lstat(fs, tasks[i].dst) = tasks[i].dstlstat

\* compile task i has removed dst and has called the transform
Redone(i) ==
    /\ <<"task", tasks[i].dst>> \in log.removed
    /\ tasks[i].calls = 1

\* C25 as stated: when dst is a regular file that is not a hard link of src
\* and is newer than or as old as src, compile returns without calling the
\* transform and without touching dst or dst + '.map'; when src is strictly
\* newer dst is removed and the transform is run.
C25_CompileSkipsNewerOrEqual ==
    \A i \in CompilesOntoOwnFile :
        IF tasks[i].dstlstat.mtime >= tasks[i].srcstat.mtime
        THEN Skipped(i)
        ELSE tasks[i].pc \in {"write", "done"} => Redone(i)

\* C25 amended: compile returns so when dst is strictly newer than src;
\* when dst is older than or as old as src it is removed and the transform
\* is run.
C25_CompileSkipsStrictlyNewer ==
    \A i \in CompilesOntoOwnFile :
        IF tasks[i].dstlstat.mtime > tasks[i].srcstat.mtime
        THEN Skipped(i)
        ELSE /\ tasks[i].pc \in {"write", "done"} => Redone(i)
             /\ ~Skipped(i)

\* C25 witness: a compile has removed a destination as old as its source
\* and has transformed the source again
C25_Witness ==
    \E i \in CompilesOntoOwnFile :
        /\ tasks[i].dstlstat.mtime = tasks[i].srcstat.mtime
        /\ tasks[i].pc = "done" /\ Redone(i)

\* the compile tasks that found a hard link of the source at the destination
CompilesOntoHardLink ==
    {i \in CompilesPastLstat :
        /\ tasks[i].dstlstat.kind = "file"
        /\ tasks[i].dstlstat.ino = tasks[i].srcstat.ino}

\* C26: when dst is a hard link of src compile removes dst, calls the
\* transform and writes a fresh dst and dst + '.map'; it resolves and
\* leaves the bytes of src as they were.
C26_CompileRedoesHardLink ==
    \A i \in CompilesOntoHardLink :
        /\ tasks[i].pc # "failed"
        /\ Bytes(fs, tasks[i].src) = tasks[i].srcstat.data
        /\ (tasks[i].pc = "done" /\ tasks[i].writes = {}) =>
              /\ Redone(i)
              /\ WrittenAsClaimed(i)
              /\ Lstat(fs, tasks[i].dst).ino # tasks[i].srcstat.ino

\* the compile tasks that have called the transform on a source babel
\* cannot parse
FailedTransforms ==
    {i \in Transforming : tasks[i].srcstat.data = BadBytes}

\* C27: when the transform fails for a file compile rejects with the error
\* of the transform and run rejects with that error; the transform has been
\* called once for the file, not again, and neither dst nor dst + '.map'
\* is written.
C27_TransformErrorPropagates ==
    \A i \in FailedTransforms :
        /\ tasks[i].pc = "failed"
        /\ tasks[i].calls = 1
        /\ tasks[i].writes = {}
        /\ result.state = "rejected"
        /\ (\A j \in DOMAIN tasks \ {i} : tasks[j].pc # "failed")
              => result = Rejected("SyntaxError", <<tasks[i].src>>)
        /\ <<"task", tasks[i].dst>> \notin log.created
        /\ <<"task", MapOf(i)>> \notin log.created

\* C27 witness: the transform has failed for a file whose older destination
\* compile had removed, and run has rejected
C27_Witness ==
    \E i \in FailedTransforms :
        /\ <<"task", tasks[i].dst>> \in log.removed
        /\ result = Rejected("SyntaxError", <<tasks[i].src>>)
        /\ tasks[i].dst \notin DOMAIN fs
        /\ MapOf(i) \in DOMAIN fs

\* the pairings classifyDirMap has looked at whose source does not exist
MissingSources ==
    {i \in cstarted : pc = "classify" /\ Stat(fs, dirMap[i].src).kind = "none"}

\* C28: when the source of a pairing does not exist, classifyDirMap, and so
\* run, rejects with a missing-source error that names the path; no
\* directory is created and no copy or compile is started.
C28_MissingSourceRejected ==
    MissingSources # {} =>
        /\ result.state = "rejected"
        /\ result.code = "AssertionError"
        /\ \E i \in MissingSources : result.paths = <<dirMap[i].src>>
        /\ tasks = <<>>
        /\ mkTodo = {}
        /\ log.created = {}

\* C28 witness: the second pairing of a run has a source that does not
\* exist, and the run has rejected naming it
C28_Witness ==
    /\ 2 \in MissingSources
    /\ result = Rejected("AssertionError", <<dirMap[2].src>>)
    /\ O \in DOMAIN fs

\* the entries of files.dir whose createDirectories task has returned
\* without an error
DirectoriesEnsured ==
    {k \in DOMAIN files.dir \ mkTodo : pc = "mkdirs" /\ result.state = "pending"}

\* createDirectories(files.dir) has resolved
CreateDirectoriesResolved ==
    pc = "mkdirs" /\ result.state = "pending" /\ mkTodo = {} /\ files.dir # <<>>

\* C29: once createDirectories(dirs) has resolved every path in dirs is a
\* directory, with every segment above it, in whatever order the paths were
\* taken, with paths listed twice and with parents and children in the same
\* list; a path that was a directory already is left as it was, and calling
\* createDirectories again with the same list changes nothing.
C29_DirectoriesEnsured ==
    /\ \A k \in DirectoriesEnsured :
          /\ \A q \in Prefixes(files.dir[k]) : Lstat(fs, q).kind = "dir"
          /\ (KeptSinceCall(files.dir[k]) /\ Lstat(fs0, files.dir[k]).kind = "dir") =>
                /\ Lstat(fs, files.dir[k]).ino = Lstat(fs0, files.dir[k]).ino
                /\ <<"mkdir", files.dir[k]>> \notin log.created
    /\ CreateDirectoriesResolved =>
          \A k \in DOMAIN files.dir :
              /\ Lstat(fs, files.dir[k]).kind = "dir"
              /\ MkdirpOk(fs, files.dir[k])
              /\ Mkdirp(fs, files.dir[k], now) = fs

\* C29 witness: createDirectories has resolved for a list that names a
\* directory twice and a directory below it, all of them made by it
C29_Witness ==
    /\ CreateDirectoriesResolved
    /\ \E j, k \in DOMAIN files.dir : j # k /\ files.dir[j] = files.dir[k]
    /\ \E j, k \in DOMAIN files.dir : Dirname(files.dir[j]) = files.dir[k]
    /\ \A k \in DOMAIN files.dir : <<"mkdir", files.dir[k]>> \in log.created

\* the entries of files.dir whose createDirectories task has found
\* something that is no directory at its path
Conflicts ==
    {k \in DOMAIN files.dir \ mkTodo :
        pc = "mkdirs" /\ Stat(fs, files.dir[k]).kind \notin {"none", "dir"}}

\* C30: when a path in dirs exists and is no directory createDirectories
\* rejects with a filesystem error and neither removes nor replaces what
\* is at that path.
C30_ConflictRejected ==
    \A k \in Conflicts :
        /\ result.state = "rejected"
        /\ result.code = "EEXIST"
        /\ \E j \in Conflicts : result.paths = <<files.dir[j]>>
        /\ Lstat(fs, files.dir[k]) = Lstat(fs0, files.dir[k])
        /\ \A e \in log.removed \cup log.created : e[2] # files.dir[k]

\* C30 witness: createDirectories has met the regular file o/s where the
\* list asks for a directory, and has rejected leaving the file in place
C30_Witness ==
    \E k \in Conflicts :
        /\ files.dir[k] = Os
        /\ result = Rejected("EEXIST", <<Os>>)
        /\ Lstat(fs, Os).kind = "file"

-----------------------------------------------------------------------------
(* Claims C31 to C38 *)

\* the paths a copy or compile task writes
Targets(i) ==
    IF tasks[i].kind = "compile" THEN {tasks[i].dst, MapOf(i)} ELSE {tasks[i].dst}

\* the paths some copy or compile task has removed
RemovedByTasks == {e[2] : e \in {x \in log.removed : x[1] = "task"}}

\* C31: once validation has passed the copy and compile tasks work on
\* disjoint paths: no two tasks write the same path, and no task removes a
\* directory createDirectories has ensured or a path under which another
\* task writes, also when a file destination of one pairing is an expected
\* directory of another.
C31_TasksDisjoint ==
    /\ \A i, j \in DOMAIN tasks : i # j => Targets(i) \cap Targets(j) = {}
    /\ RemovedByTasks \cap ExpectedDirs = {}
    /\ \A i, j \in DOMAIN tasks :
          i # j => \A p \in RemovedByTasks \cap Targets(i) :
                      \A q \in Targets(j) : ~IsUnder(q, p)

\* the copy and compile tasks have been started and none has taken a step
TasksJustStarted ==
    /\ pc = "files" /\ tasks # <<>>
    /\ \A i \in DOMAIN tasks : tasks[i].pc = "stat"

\* C32: when the copy and compile tasks of run start, the directory of each
\* destination exists, for every pairing list that passes validation, with
\* pairings of single files and in incremental runs that removed stale
\* directories.
C32_ParentDirectoryExists ==
    TasksJustStarted =>
        \A i \in DOMAIN tasks : IsDirAt(fs, Dirname(tasks[i].dst))

\* the compile tasks that have resolved
CompilesResolved ==
    {i \in DOMAIN tasks :
        tasks[i].kind = "compile" /\ tasks[i].pc = "done" /\ tasks[i].writes = {}}

\* C33: whenever compile(src, dst) resolves, dst is a regular file and
\* dst + '.map' exists, whatever was at dst before the call and whatever
\* its modification time.
C33_ResolvedCompileHasOutput ==
    \A i \in CompilesResolved :
        /\ Lstat(fs, tasks[i].dst).kind = "file"
        /\ MapOf(i) \in DOMAIN fs

\* the removal of the stale entries, lines 106-114, is under way or over
RemovingStale == args.forceClean = "false" /\ pc \in {"unlink", "rmdirs"}

\* C34: in incremental mode the removal of the stale entries unlinks each
\* stale file once and ends without an error when every operation is
\* permitted, also when two pairings share a destination root or one root
\* lies inside another.
C34_StaleFilesUnlinkedOnce ==
    RemovingStale =>
        /\ result.state # "rejected"
        /\ \A j, k \in DOMAIN fileExtra : j # k => fileExtra[j] # fileExtra[k]

\* the promise of run has settled while its file tasks were running
SettledInFiles == pc \in {"files", "done"} /\ result.state # "pending"

\* task i will take no further step
Finished(i) == tasks[i].pc \in {"done", "failed"} /\ tasks[i].writes = {}

\* C35: once the promise of run has settled every copy and compile task it
\* started has finished, so that no task changes the filesystem afterwards;
\* so it is when run rejects because one task failed.
C35_TasksFinishedWhenSettled ==
    SettledInFiles => \A i \in DOMAIN tasks : Finished(i)

\* the copy tasks whose byte copy has resolved without a stream error
ByteCopiesResolved ==
    {i \in DOMAIN tasks :
        /\ tasks[i].kind = "copy" /\ tasks[i].pc = "done"
        /\ tasks[i].tried = <<"link", "symlink", "stream">>
        /\ tasks[i].err = ""}

\* C36: the promise of a byte copy resolves only when every byte has been
\* written to dst: at that moment dst has the bytes of src.
C36_ByteCopyResolvesAfterWrite ==
    \A i \in ByteCopiesResolved :
        /\ tasks[i].writes = {}
        /\ NotRemovedByTask(tasks[i].dst) => Bytes(fs, tasks[i].dst) = tasks[i].out

\* the items classification has placed in cop or com
Items == Range(files.cop) \cup Range(files.com)

\* C37: every item classification places in cop or com has a source that
\* is a regular file once symbolic links are followed, so the isFile
\* assertions of copy and compile hold for it, also when the source tree
\* holds a symbolic link to a directory.
C37_ItemsAreRegularFiles ==
    pc = "classify" => \A x \in Items : Stat(fs, x.src).kind = "file"

\* the calls of copy that found a regular file at the destination and have
\* gone past the comparisons
CopiesOntoFile ==
    {i \in DOMAIN tasks :
        /\ tasks[i].kind = "copy"
        /\ tasks[i].dstlstat.kind = "file"
        /\ tasks[i].pc \notin {"stat", "lstat", "compare"}}

\* C38: copy of src/compile.js, called with a dst that is a regular file,
\* either returns leaving dst in place (same inode as src, or dst newer
\* than src) or removes dst and makes it anew through the link chain; it
\* never throws, whatever the inodes and modification times of src and dst.
C38_LegacyCopyNeverThrows ==
    \A i \in CopiesOntoFile :
        /\ tasks[i].pc # "failed"
        /\ (tasks[i].pc = "done" /\ tasks[i].tried = <<>>) =>
              /\ Lstat(fs, tasks[i].dst) = tasks[i].dstlstat
              /\ \/ tasks[i].dstlstat.ino = tasks[i].srcstat.ino
                 \/ tasks[i].dstlstat.mtime > tasks[i].srcstat.mtime
        /\ tasks[i].tried # <<>> => <<"task", tasks[i].dst>> \in log.removed

=============================================================================
